---- MODULE Spec2Model ----
(***************************************************************************)
(* Model of the sector opportunity analyzer's scoring engine:              *)
(*   analysis/signals.go  - normalizers and the five signal calculators    *)
(*   analysis/scoring.go  - SectorScorer (NewSectorScorer, CalculateScores)*)
(*   config/config.go     - SectorNames, DefaultWeights, MomentumPeriods   *)
(*   api/handlers.go      - AppState (GetData, RefreshData), parseWeights  *)
(*                                                                         *)
(* Numbers.  A float64 is modelled as an exact integer count of a unit     *)
(* that depends on the quantity:                                           *)
(*   - a normalized score is a count of hundredths (50.0 is 5000), which   *)
(*     is exact because every score the code stores went through          *)
(*     math.Round(x*100)/100;                                              *)
(*   - a raw metric is an integer count of its own unit;                   *)
(*   - a weight is the rational num/den with one den for the whole map.    *)
(* Arithmetic between the roundings is done on exact rationals, so a       *)
(* rounding happens exactly where the code calls math.Round (half away     *)
(* from zero).  The non-numbers a float64 takes in this model are NaN and  *)
(* the two infinities.                                                     *)
(***************************************************************************)
EXTENDS Integers, Sequences, FiniteSets, TLC

(***************************************************************************)
(* Bounds of the model.                                                    *)
(***************************************************************************)
\* number of configured sectors that are modelled (config.SectorNames has 11)
NumSectors == 3

(***************************************************************************)
(* config/config.go                                                        *)
(***************************************************************************)
\* the ordered list of sector names; a sector is named by its position
SectorNames == [i \in 1..NumSectors |-> i]

Sectors == {SectorNames[i] : i \in 1..NumSectors}

\* the key of the benchmark series in SectorPrices ("_benchmark")
Benchmark == 0

Signals == {"momentum", "valuation", "growth", "innovation", "macro"}

(***************************************************************************)
(* float64 helpers                                                         *)
(***************************************************************************)
\* the float64 NaN; every comparison with it is false (IEEE 754)
NaN == -999999

IsNaN(x) == x = NaN

\* math.Inf(1) and math.Inf(-1): what a division of a non-zero number by 0
\* gives
PosInf == 999999

NegInf == -999998

IsFinite(x) == x \notin {NaN, PosInf, NegInf}

\* a - b on float64
FSub(a, b) ==
  IF IsNaN(a) \/ IsNaN(b) THEN NaN
  ELSE IF a = PosInf THEN (IF b = PosInf THEN NaN ELSE PosInf)
  ELSE IF a = NegInf THEN (IF b = NegInf THEN NaN ELSE NegInf)
  ELSE IF b = PosInf THEN NegInf
  ELSE IF b = NegInf THEN PosInf
  ELSE a - b

\* a > b on float64
FGt(a, b) == ~IsNaN(a) /\ ~IsNaN(b) /\ a > b

\* a >= b on float64
FGe(a, b) == ~IsNaN(a) /\ ~IsNaN(b) /\ a >= b

\* a == b on float64
FEq(a, b) == ~IsNaN(a) /\ ~IsNaN(b) /\ a = b

Abs(x) == IF x < 0 THEN -x ELSE x

\* the score 50.0 and the score 100.0, in hundredths
Fifty == 5000

Hundred == 10000

EmptyMap == [k \in {} |-> 0]

RECURSIVE SumOver(_, _)
\* sum of f[k] over the keys k in S
SumOver(f, S) ==
  IF S = {} THEN 0
  ELSE LET k == CHOOSE x \in S : TRUE
       IN f[k] + SumOver(f, S \ {k})

RECURSIVE ISqrtIn(_, _, _)
\* the largest m in lo..hi with m*m <= n (lo*lo <= n is given)
ISqrtIn(n, lo, hi) ==
  IF lo >= hi THEN lo
  ELSE LET mid == (lo + hi + 1) \div 2
       IN IF mid * mid <= n THEN ISqrtIn(n, mid, hi)
          ELSE ISqrtIn(n, lo, mid - 1)

\* floor of the square root of n, for 0 <= n < 2^31
ISqrt(n) == ISqrtIn(n, 0, 46340)

\* math.Round(num/den) for num >= 0, den > 0: half rounds away from zero
RoundDiv(num, den) == (2 * num + den) \div (2 * den)

(***************************************************************************)
(* analysis/signals.go: NormalizeScore                                     *)
(***************************************************************************)
MinOf(values) ==
  CHOOSE v \in {values[k] : k \in DOMAIN values} :
    \A k \in DOMAIN values : v <= values[k]

MaxOf(values) ==
  CHOOSE v \in {values[k] : k \in DOMAIN values} :
    \A k \in DOMAIN values : v >= values[k]

\* a faulty score: the polarity is ignored
MinMaxScoreNeverInverted(val, minVal, maxVal, higherIsBetter) ==
  RoundDiv(Hundred * (val - minVal), maxVal - minVal)

\* one score of the min-max normalization, in hundredths:
\*   score := ((val - minVal) / (maxVal - minVal)) * 100
\*   if !higherIsBetter { score = 100 - score }
\*   math.Round(score*100) / 100
\* 100 - score is exactly ((maxVal - val) / (maxVal - minVal)) * 100
MinMaxScore(val, minVal, maxVal, higherIsBetter) ==
  IF higherIsBetter
  THEN RoundDiv(Hundred * (val - minVal), maxVal - minVal)
  ELSE RoundDiv(Hundred * (maxVal - val), maxVal - minVal)

NormalizeScore(values, higherIsBetter) ==
  IF DOMAIN values = {} THEN EmptyMap
  ELSE LET minVal == MinOf(values)
           maxVal == MaxOf(values)
       IN IF maxVal = minVal
          THEN [k \in DOMAIN values |-> Fifty]
          ELSE [k \in DOMAIN values |->
                  MinMaxScore(values[k], minVal, maxVal, higherIsBetter)]

(***************************************************************************)
(* analysis/signals.go: NormalizeScoreZScore                               *)
(*                                                                         *)
(* For n values with sum S and sum of squares SS, Q = n*SS - S*S.          *)
(* stat.Mean is S/n.  stat.StdDev is the sample standard deviation,        *)
(* sqrt(Q / (n*(n-1))): it is 0/0 = NaN for n = 1 and 0 exactly when all   *)
(* the values are equal.  For one value val, with dev = n*val - S,         *)
(*   z*z = (dev*dev*(n-1)) / (n*Q)                                         *)
(* and the score is 50 + 15*z.                                             *)
(***************************************************************************)
\* score := 50 + (z * 15)
ZScale == 15

SumSq(values) == SumOver([k \in DOMAIN values |-> values[k] * values[k]], DOMAIN values)

\* Q of the values: n*n*(n-1)/n times the sample variance
SpreadQ(values) ==
  LET n == Cardinality(DOMAIN values)
      S == SumOver(values, DOMAIN values)
  IN n * SumSq(values) - S * S

RECURSIVE ScaleDiv(_, _, _)
\* [floor |-> floor(q * f1 * ... * fk), exact |-> whether that product is an
\* integer], for the rational q = qr.quot + qr.rem/D and the factors
\* <<f1, ..., fk>>; no intermediate product exceeds max(fi) * D
ScaleDiv(qr, D, factors) ==
  IF factors = << >> THEN [floor |-> qr.quot, exact |-> qr.rem = 0]
  ELSE LET f == Head(factors)
       IN ScaleDiv([quot |-> qr.quot * f + (qr.rem * f) \div D,
                    rem |-> (qr.rem * f) % D], D, Tail(factors))

\* floor and exactness of (2 * 15 * 100)^2 * P / D: the square of twice the
\* distance |15*z| in hundredths, for z*z = P/D
TwoDistSq(P, D) ==
  ScaleDiv([quot |-> P \div D, rem |-> P % D], D,
           <<2 * ZScale, 2 * ZScale, 10, 10, 10, 10>>)

\* one score of the z-score normalization, in hundredths, for std > 0:
\*   z := (val - mean) / std
\*   score := 50 + (z * 15); clamp to [0, 100]
\*   if !higherIsBetter { score = 100 - score }
\*   math.Round(score*100) / 100
ZScoreScore(val, n, S, Q, higherIsBetter) ==
  LET dev == n * val - S
      sq == TwoDistSq(dev * dev * (n - 1), n * Q)
      m == ISqrt(sq.floor)
      \* |15*z| > 50: the score before the polarity is outside [0, 100]
      clamped == sq.floor > Hundred * Hundred
                   \/ (sq.floor = Hundred * Hundred /\ ~sq.exact)
      \* |15*z| lies exactly between two hundredths
      tie == sq.exact /\ m * m = sq.floor /\ m % 2 = 1
      \* the final score is 50 + |15*z| (otherwise 50 - |15*z|)
      up == (dev >= 0) = higherIsBetter
      dist == IF clamped THEN Fifty
              ELSE IF tie /\ ~up THEN (m - 1) \div 2
              ELSE (m + 1) \div 2
  IN IF dev = 0 THEN Fifty
     ELSE IF up THEN Fifty + dist
     ELSE Fifty - dist

\* stat.StdDev(vals, nil) compared with 0: "nan", "zero" or "positive"
StdDevClass(values) ==
  IF Cardinality(DOMAIN values) = 1 THEN "nan"
  ELSE IF SpreadQ(values) = 0 THEN "zero"
  ELSE "positive"

NormalizeScoreZScore(values, higherIsBetter) ==
  IF DOMAIN values = {} THEN EmptyMap
  \* a NaN or an infinity among the values: stat.Mean is not finite and
  \* stat.StdDev is NaN (it adds up (v - mean)^2, and Inf - Inf is NaN), so
  \* every z is NaN
  ELSE IF \E k \in DOMAIN values : ~IsFinite(values[k])
  THEN [k \in DOMAIN values |-> NaN]
  ELSE LET n == Cardinality(DOMAIN values)
           S == SumOver(values, DOMAIN values)
           Q == SpreadQ(values)
           std == StdDevClass(values)
       IN IF std = "zero"
          THEN [k \in DOMAIN values |-> Fifty]
          ELSE IF std = "nan"
          \* z is NaN; NaN < 0 and NaN > 100 are false; math.Round(NaN) is NaN
          THEN [k \in DOMAIN values |-> NaN]
          ELSE [k \in DOMAIN values |->
                  ZScoreScore(values[k], n, S, Q, higherIsBetter)]

(***************************************************************************)
(* data/types.go and the helpers of analysis/signals.go                    *)
(*                                                                         *)
(* A PriceSeries is a sequence of bars [Close, Volume]; a TimeSeries is    *)
(* the sequence of its Values; a map is a function on its key set.         *)
(* A percentage (a return, a growth, a trend) is a count of whole percent  *)
(* and a ratio (a monthly return, a rate change) is a count of halves; the *)
(* price, volume and rate levels of the model make every such quotient an  *)
(* integer, so the model adds no rounding there.  A correlation is a       *)
(* count of thousandths, rounded to the nearest.                           *)
(***************************************************************************)
\* a nil pointer (*float64) and an absent optional field
Nil == -888888

\* ((b - a) / a) * 100 in percent, and likewise (b/a - 1) * 100; a division
\* by 0 gives an infinity, and 0/0 gives NaN
PctChange(a, b) ==
  IF a # 0 THEN ((b - a) * 100) \div a
  ELSE IF b > 0 THEN PosInf
  ELSE IF b < 0 THEN NegInf
  ELSE NaN

\* (b - a) / a for a > 0, in halves
RatioChange(a, b) == ((b - a) * 2) \div a

getOrDefault(m, key, def) == IF key \in DOMAIN m THEN m[key] ELSE def

defaultScores == [sector \in Sectors |-> Fifty]

min(a, b) == IF a < b THEN a ELSE b

\* the last n elements of a sequence: s[len(s)-n:]
Suffix(s, n) == SubSeq(s, Len(s) - n + 1, Len(s))

RECURSIVE SumSeq(_)
SumSeq(s) == IF s = << >> THEN 0 ELSE Head(s) + SumSeq(Tail(s))

(***************************************************************************)
(* analysis/signals.go: CalculatePriceReturns, CalculateRelativeStrength,  *)
(* CalculateVolumeTrend, CalculateMomentumScore                            *)
(***************************************************************************)
MomentumPeriods == <<3, 6, 12>>

\* trading days per month: tradingDays := months * 21
TradingDaysPerMonth == 21

periodKey(months) ==
  CASE months = 3 -> "3mo"
    [] months = 6 -> "6mo"
    [] months = 12 -> "12mo"
    [] OTHER -> ""

\* series[len(series)-k] of the code, on a 1-based sequence
FromTail(series, k) == series[Len(series) - k + 1]

\* a faulty inner loop: the start price is the close of the first bar of the
\* series
sectorReturnsOfFirstBar(series) ==
  LET has == {i \in DOMAIN MomentumPeriods :
                Len(series) >= MomentumPeriods[i] * TradingDaysPerMonth}
  IN [key \in {periodKey(MomentumPeriods[i]) : i \in has} |->
        PctChange(series[1].Close, FromTail(series, 1).Close)]

\* the inner loop of CalculatePriceReturns: the returns of one series
sectorReturnsOf(series) ==
  LET has == {i \in DOMAIN MomentumPeriods :
                Len(series) >= MomentumPeriods[i] * TradingDaysPerMonth}
      monthsOf(key) == CHOOSE m \in {MomentumPeriods[i] : i \in has} : periodKey(m) = key
  IN [key \in {periodKey(MomentumPeriods[i]) : i \in has} |->
        PctChange(FromTail(series, monthsOf(key) * TradingDaysPerMonth).Close,
                  FromTail(series, 1).Close)]

\* the shortest series CalculatePriceReturns looks at
MinBars == 20

CalculatePriceReturns(prices) ==
  LET kept == {sector \in DOMAIN prices :
                 /\ ~(sector = Benchmark \/ Len(prices[sector]) < MinBars)
                 /\ DOMAIN sectorReturnsOf(prices[sector]) # {}}
  IN [sector \in kept |-> sectorReturnsOf(prices[sector])]

\* a faulty calculator: the loop does not skip the key of the benchmark
CalculateRelativeStrengthOfEveryKey(prices, periodMonths) ==
  IF Benchmark \notin DOMAIN prices \/ Len(prices[Benchmark]) = 0 THEN EmptyMap
  ELSE LET tradingDays == periodMonths * TradingDaysPerMonth
           benchmarkSeries == prices[Benchmark]
       IN IF Len(benchmarkSeries) < tradingDays THEN EmptyMap
          ELSE LET benchmarkReturn ==
                     PctChange(FromTail(benchmarkSeries, tradingDays).Close,
                               FromTail(benchmarkSeries, 1).Close)
                   kept == {sector \in DOMAIN prices : ~(Len(prices[sector]) < tradingDays)}
               IN [sector \in kept |->
                     FSub(PctChange(FromTail(prices[sector], tradingDays).Close,
                                    FromTail(prices[sector], 1).Close),
                          benchmarkReturn)]

CalculateRelativeStrength(prices, periodMonths) ==
  IF Benchmark \notin DOMAIN prices \/ Len(prices[Benchmark]) = 0 THEN EmptyMap
  ELSE LET tradingDays == periodMonths * TradingDaysPerMonth
           benchmarkSeries == prices[Benchmark]
       IN IF Len(benchmarkSeries) < tradingDays THEN EmptyMap
          ELSE LET benchmarkReturn ==
                     PctChange(FromTail(benchmarkSeries, tradingDays).Close,
                               FromTail(benchmarkSeries, 1).Close)
                   kept == {sector \in DOMAIN prices :
                              ~(sector = Benchmark \/ Len(prices[sector]) < tradingDays)}
               IN [sector \in kept |->
                     FSub(PctChange(FromTail(prices[sector], tradingDays).Close,
                                    FromTail(prices[sector], 1).Close),
                          benchmarkReturn)]

\* the sum of the Volume of the last period bars
VolumeSum(series, period) ==
  SumSeq([i \in 1..period |-> FromTail(series, i).Volume])

\* ((shortAvg - longAvg) / longAvg) * 100, with shortAvg = shortSum/shortPeriod
\* and longAvg = longSum/longPeriod
VolumeTrendOf(series, shortPeriod, longPeriod) ==
  LET shortSum == VolumeSum(series, shortPeriod)
      longSum == VolumeSum(series, longPeriod)
  IN ((shortSum * longPeriod - longSum * shortPeriod) * 100)
       \div (longSum * shortPeriod)

CalculateVolumeTrend(prices, shortPeriod, longPeriod) ==
  LET kept == {sector \in DOMAIN prices :
                 /\ ~(sector = Benchmark \/ Len(prices[sector]) < longPeriod)
                 \* if longAvg > 0
                 /\ VolumeSum(prices[sector], longPeriod) > 0}
  IN [sector \in kept |-> VolumeTrendOf(prices[sector], shortPeriod, longPeriod)]

\* a faulty blend: the volume sub-score is left out and the two others
\* share the score equally
CombineMomentumHalves(retScore, rsScore, volScore) ==
  IF IsNaN(retScore) \/ IsNaN(rsScore) \/ IsNaN(volScore) THEN NaN
  ELSE RoundDiv(50 * retScore + 50 * rsScore, 100)

\* math.Round(combined*100)/100 of
\* combined := (0.50 * retScore) + (0.35 * rsScore) + (0.15 * volScore)
CombineMomentum(retScore, rsScore, volScore) ==
  IF IsNaN(retScore) \/ IsNaN(rsScore) \/ IsNaN(volScore) THEN NaN
  ELSE RoundDiv(50 * retScore + 35 * rsScore + 15 * volScore, 100)

CalculateMomentumScore(prices) ==
  LET returns == CalculatePriceReturns(prices)
      relStrength == CalculateRelativeStrength(prices, 12)
      volumeTrend == CalculateVolumeTrend(prices, 20, 50)
      returns12mo == [sector \in {x \in DOMAIN returns : "12mo" \in DOMAIN returns[x]} |->
                        returns[sector]["12mo"]]
      normReturns == NormalizeScoreZScore(returns12mo, TRUE)
      normRelStrength == NormalizeScoreZScore(relStrength, TRUE)
      normVolume == NormalizeScoreZScore(volumeTrend, TRUE)
  IN [sector \in Sectors |->
        CombineMomentum(getOrDefault(normReturns, sector, Fifty),
                        getOrDefault(normRelStrength, sector, Fifty),
                        getOrDefault(normVolume, sector, Fifty))]

(***************************************************************************)
(* analysis/signals.go: CalculateValuationScore                            *)
(***************************************************************************)
\* the P/E map built from sectorPE first and sectorInfo second
peMapOf(sectorPE, sectorInfo) ==
  LET first == {sector \in DOMAIN sectorPE : sectorPE[sector] > 0}
      second == {sector \in DOMAIN sectorInfo :
                   /\ sector \notin first
                   /\ sectorInfo[sector].ForwardPE # Nil
                   /\ sectorInfo[sector].ForwardPE > 0}
  IN [sector \in first \cup second |->
        IF sector \in first THEN sectorPE[sector]
        ELSE sectorInfo[sector].ForwardPE]

\* "Fill missing sectors": scores[sector] = def for every configured sector
\* that has no score
FillMissing(scores, def) ==
  [sector \in DOMAIN scores \cup Sectors |->
     IF sector \in DOMAIN scores THEN scores[sector] ELSE def]

\* a faulty calculator: it normalizes the P/E as higher-is-better
CalculateValuationScoreHigherBetter(sectorPE, sectorInfo) ==
  LET peMap == peMapOf(sectorPE, sectorInfo)
  IN IF DOMAIN peMap = {} THEN defaultScores
     ELSE FillMissing(NormalizeScoreZScore(peMap, TRUE), Fifty)

CalculateValuationScore(sectorPE, sectorInfo) ==
  LET peMap == peMapOf(sectorPE, sectorInfo)
  IN IF DOMAIN peMap = {} THEN defaultScores
     ELSE FillMissing(NormalizeScoreZScore(peMap, FALSE), Fifty)

(***************************************************************************)
(* analysis/signals.go: CalculateEmploymentGrowth, CalculateGrowthScore    *)
(***************************************************************************)
\* observations needed: len(ts.Values) < 13 is skipped, and yearAgo is
\* ts.Values[len(ts.Values)-13]
EmploymentWindow == 13

\* a faulty calculator: yearAgo is taken one observation further back, and
\* a series needs one observation more
CalculateEmploymentGrowthOneFurther(employment) ==
  LET kept == {sector \in DOMAIN employment :
                 /\ Len(employment[sector].Values) >= EmploymentWindow + 1
                 /\ FromTail(employment[sector].Values, EmploymentWindow + 1) > 0}
  IN [sector \in kept |->
        PctChange(FromTail(employment[sector].Values, EmploymentWindow + 1),
                  FromTail(employment[sector].Values, 1))]

CalculateEmploymentGrowth(employment) ==
  LET kept == {sector \in DOMAIN employment :
                 /\ Len(employment[sector].Values) >= EmploymentWindow
                 \* if yearAgo > 0
                 /\ FromTail(employment[sector].Values, EmploymentWindow) > 0}
  IN [sector \in kept |->
        PctChange(FromTail(employment[sector].Values, EmploymentWindow),
                  FromTail(employment[sector].Values, 1))]

CalculateGrowthScore(employment) ==
  LET growth == CalculateEmploymentGrowth(employment)
  IN IF DOMAIN growth = {} THEN defaultScores
     ELSE FillMissing(NormalizeScoreZScore(growth, TRUE), Fifty)

(***************************************************************************)
(* analysis/signals.go: CalculateInnovationScore                           *)
(***************************************************************************)
\* "Fill missing sectors with below-average score"
InnovationDefault == 3000

\* a faulty calculator: without R&D data every sector gets the penalized
\* default
CalculateInnovationScorePenalizing(rdData) ==
  LET validRD == [sector \in {x \in DOMAIN rdData : rdData[x] > 0} |-> rdData[sector]]
  IN FillMissing(NormalizeScoreZScore(validRD, TRUE), InnovationDefault)

\* a faulty filter: it keeps every entry of rdData
validRDOfEveryEntry(rdData) == rdData

\* "Filter out zeros": validRD[sector] = rd for the entries with rd > 0
validRDOf(rdData) ==
  [sector \in {x \in DOMAIN rdData : rdData[x] > 0} |-> rdData[sector]]

CalculateInnovationScore(rdData) ==
  IF DOMAIN rdData = {} THEN defaultScores
  ELSE LET validRD == validRDOf(rdData)
       IN IF DOMAIN validRD = {} THEN defaultScores
          ELSE FillMissing(NormalizeScoreZScore(validRD, TRUE), InnovationDefault)

(***************************************************************************)
(* analysis/signals.go: monthlyChanges, monthlyReturnsFromPrices,          *)
(* CalculateRateSensitivity, CalculateMacroScore                           *)
(***************************************************************************)
RECURSIVE monthlyChangesFrom(_, _)
\* the changes appended for i, i+1, ..., len(vals)-1 (0-based i)
monthlyChangesFrom(vals, i) ==
  IF i >= Len(vals) THEN << >>
  ELSE (IF vals[i] # 0 THEN <<RatioChange(vals[i], vals[i + 1])>> ELSE << >>)
         \o monthlyChangesFrom(vals, i + 1)

monthlyChanges(ts) ==
  IF Len(ts.Values) < 2 THEN << >> ELSE monthlyChangesFrom(ts.Values, 1)

RECURSIVE monthlyReturnsFrom(_, _)
\* the returns appended for i, i+21, ... while i < len(series) (0-based i)
monthlyReturnsFrom(series, i) ==
  IF i >= Len(series) THEN << >>
  ELSE (IF series[i - TradingDaysPerMonth + 1].Close > 0
        THEN <<RatioChange(series[i - TradingDaysPerMonth + 1].Close, series[i + 1].Close)>>
        ELSE << >>)
         \o monthlyReturnsFrom(series, i + TradingDaysPerMonth)

monthlyReturnsFromPrices(series) ==
  IF Len(series) < TradingDaysPerMonth THEN << >>
  ELSE monthlyReturnsFrom(series, TradingDaysPerMonth)

\* sum of x[i]*y[i]
Dot(x, y) == SumSeq([i \in 1..Len(x) |-> x[i] * y[i]])

\* stat.Correlation(x, y, nil): the Pearson correlation of two sequences of
\* the same length n, cov / sqrt(vx * vy) with cov = n*Sxy - Sx*Sy,
\* vx = n*Sxx - Sx*Sx, vy = n*Syy - Sy*Sy; 0/0 = NaN when a sequence is
\* constant.  In thousandths, rounded to the nearest.
Correlation(x, y) ==
  LET n == Len(x)
      cov == n * Dot(x, y) - SumSeq(x) * SumSeq(y)
      vx == n * Dot(x, x) - SumSeq(x) * SumSeq(x)
      vy == n * Dot(y, y) - SumSeq(y) * SumSeq(y)
      P == cov * cov
      D == vx * vy
      \* floor((2 * 1000 * |r|)^2)
      sq == ScaleDiv([quot |-> P \div D, rem |-> P % D], D, <<4, 10, 10, 10, 10, 10, 10>>)
      mag == (ISqrt(sq.floor) + 1) \div 2
  IN IF vx = 0 \/ vy = 0 THEN NaN
     ELSE IF cov < 0 THEN -mag ELSE mag

\* bars a series needs: len(series) < 252 is skipped
MinSensitivityBars == 252

\* monthly points both sequences need
MinMonthlyPoints == 12

\* a faulty alignment: the oldest n values of both sequences are taken
alignedOfOldest(series, rateChanges) ==
  LET sectorReturns == monthlyReturnsFromPrices(series)
      n == min(Len(sectorReturns), Len(rateChanges))
  IN [returns |-> SubSeq(sectorReturns, 1, n), rates |-> SubSeq(rateChanges, 1, n)]

\* the two slices handed to stat.Correlation for a series that passed the
\* length checks: returns := sectorReturns[len(sectorReturns)-n:] and
\* rates := rateChanges[len(rateChanges)-n:]
alignedOf(series, rateChanges) ==
  LET sectorReturns == monthlyReturnsFromPrices(series)
      n == min(Len(sectorReturns), Len(rateChanges))
  IN [returns |-> Suffix(sectorReturns, n), rates |-> Suffix(rateChanges, n)]

\* the correlation of one series with the rate changes, for a series that
\* passed the length checks
sensitivityOf(series, rateChanges) ==
  Correlation(alignedOf(series, rateChanges).returns, alignedOf(series, rateChanges).rates)

\* the keys for which the loop of CalculateRateSensitivity reaches
\* stat.Correlation
CorrelatedKeys(prices, interestRates) ==
  IF Len(interestRates.Values) = 0 THEN {}
  ELSE LET rateChanges == monthlyChanges(interestRates)
       IN {sector \in DOMAIN prices :
             /\ ~(sector = Benchmark \/ Len(prices[sector]) < MinSensitivityBars)
             /\ ~(Len(monthlyReturnsFromPrices(prices[sector])) < MinMonthlyPoints
                    \/ Len(rateChanges) < MinMonthlyPoints)
             /\ ~(min(Len(monthlyReturnsFromPrices(prices[sector])),
                      Len(rateChanges)) < MinMonthlyPoints)}

CalculateRateSensitivity(prices, interestRates) ==
  IF Len(interestRates.Values) = 0 THEN EmptyMap
  ELSE LET rateChanges == monthlyChanges(interestRates)
           kept == {sector \in CorrelatedKeys(prices, interestRates) :
                      \* if !math.IsNaN(corr)
                      ~IsNaN(sensitivityOf(prices[sector], rateChanges))}
       IN [sector \in kept |-> sensitivityOf(prices[sector], rateChanges)]

\* a faulty calculator: without the treasury_10y series every sector gets 0
CalculateMacroScoreZeroed(prices, macroData) ==
  IF "treasury_10y" \notin DOMAIN macroData THEN [sector \in Sectors |-> 0]
  ELSE LET sensitivity == CalculateRateSensitivity(prices, macroData["treasury_10y"])
       IN IF DOMAIN sensitivity = {} THEN [sector \in Sectors |-> 0]
          ELSE FillMissing(NormalizeScoreZScore(sensitivity, FALSE), Fifty)

CalculateMacroScore(prices, macroData) ==
  IF "treasury_10y" \notin DOMAIN macroData THEN defaultScores
  ELSE LET sensitivity == CalculateRateSensitivity(prices, macroData["treasury_10y"])
       IN IF DOMAIN sensitivity = {} THEN defaultScores
          ELSE FillMissing(NormalizeScoreZScore(sensitivity, FALSE), Fifty)

(***************************************************************************)
(* analysis/scoring.go: the weights and NewSectorScorer                    *)
(*                                                                         *)
(* A weight map is [num, den]: the weight of signal k is num[k]/den.       *)
(***************************************************************************)
\* a faulty configuration: the default weights sum to 1.05
DefaultWeightsSummingAbove ==
  [num |-> [k \in Signals |-> IF k = "momentum" THEN 30 ELSE 20 - (IF k = "macro" THEN 5 ELSE 0)],
   den |-> 100]

\* config.DefaultWeights as the program starts
DefaultWeightsInit ==
  [num |-> [k \in Signals |->
              CASE k = "momentum" -> 25
                [] k = "valuation" -> 20
                [] k = "growth" -> 20
                [] k = "innovation" -> 20
                [] k = "macro" -> 15],
   den |-> 100]

\* sum of the numerators of a weight map
NumSum(w) == SumOver(w.num, Signals)

\* a faulty guard: it rescales only a sum above the tolerance
NeedsRescaleAboveOnly(w) == NumSum(w) > 0 /\ 100 * (NumSum(w) - w.den) > w.den

\* if sum > 0 && math.Abs(sum-1.0) > 0.01
NeedsRescale(w) == NumSum(w) > 0 /\ 100 * Abs(NumSum(w) - w.den) > w.den

\* the float64 sum of the weights lies on the boundary of the tolerance:
\* 0.01 away from 1.0 before any rounding
SumOnBoundary(w) == NumSum(w) > 0 /\ 100 * Abs(NumSum(w) - w.den) = w.den

\* what the guard can evaluate to.  The sum is accumulated in the iteration
\* order of the map, which Go leaves unspecified, and float64 addition
\* rounds differently from order to order; off the boundary the rounding is
\* far too small to matter, on it the rounding decides.
GuardOutcomes(w) == IF SumOnBoundary(w) THEN BOOLEAN ELSE {NeedsRescale(w)}

RECURSIVE GCD(_, _)
GCD(a, b) == IF b = 0 THEN a ELSE GCD(b, a % b)

RECURSIVE GCDOver(_, _)
\* the greatest common divisor of g and the numerators of the keys
GCDOver(num, keys) ==
  IF keys = {} THEN 0
  ELSE LET k == CHOOSE x \in keys : TRUE
       IN GCD(num[k], GCDOver(num, keys \ {k}))

\* num/den in lowest terms
LowestTerms(num, den) ==
  LET g == GCD(num, den)
  IN IF g = 0 THEN [num |-> num, den |-> den]
     ELSE [num |-> num \div g, den |-> den \div g]

\* the same weights over the smallest denominator
Reduced(w) ==
  LET g == GCD(w.den, GCDOver(w.num, Signals))
  IN [w EXCEPT !.num = [k \in Signals |-> w.num[k] \div g], !.den = w.den \div g]

\* the map after the loop weights[k] = v / sum, for the local sum = num/den
\* read earlier (the map may have been written since)
DividedBySum(w, sum) ==
  IF sum.den = w.den THEN [w EXCEPT !.den = sum.num]
  ELSE Reduced([w EXCEPT !.num = [k \in Signals |-> w.num[k] * sum.den],
                         !.den = w.den * sum.num])

\* the map after NewSectorScorer ran alone on it, the guard being rescale
RescaledIf(w, rescale) ==
  IF rescale THEN DividedBySum(w, [num |-> NumSum(w), den |-> w.den]) ELSE w

\* if weights == nil { weights = config.DefaultWeights }
WeightsRef(weights) == IF weights = "nil" THEN "DefaultWeights" ELSE weights

(***************************************************************************)
(* analysis/scoring.go: CalculateScores                                    *)
(***************************************************************************)
\* weight * score = n * s / d as a quotient and a remainder over d, for a
\* score s of 0..100 in hundredths, without a product beyond 32 bits
MulDiv(n, s, d) ==
  LET high == n * (s \div 100)
      low == (high % d) * 100 + n * (s % 100)
  IN [quot |-> (high \div d) * 100 + low \div d, rem |-> low % d]

\* math.Round(opportunity*100)/100 of the weighted sum of the five scores
Opportunity(w, momentum, valuation, growth, innovation, macro) ==
  IF IsNaN(momentum) \/ IsNaN(valuation) \/ IsNaN(growth)
       \/ IsNaN(innovation) \/ IsNaN(macro)
  THEN NaN
  ELSE LET terms == <<MulDiv(w.num["momentum"], momentum, w.den),
                      MulDiv(w.num["valuation"], valuation, w.den),
                      MulDiv(w.num["growth"], growth, w.den),
                      MulDiv(w.num["innovation"], innovation, w.den),
                      MulDiv(w.num["macro"], macro, w.den)>>
           quot == SumSeq([i \in 1..5 |-> terms[i].quot])
           rem == SumSeq([i \in 1..5 |-> terms[i].rem])
       IN quot + RoundDiv(rem, w.den)

\* the five score maps and the raw metric maps computed before the loop
ScoreMaps(allData) ==
  [momentumScores |-> CalculateMomentumScore(allData.SectorPrices),
   valuationScores |-> CalculateValuationScore(EmptyMap, allData.SectorInfo),
   growthScores |-> CalculateGrowthScore(allData.EmploymentData),
   innovationScores |-> CalculateInnovationScore(allData.RDData),
   macroScores |-> CalculateMacroScore(allData.SectorPrices, allData.MacroData),
   priceReturns |-> CalculatePriceReturns(allData.SectorPrices),
   relStrength |-> CalculateRelativeStrength(allData.SectorPrices, 12),
   employmentGrowth |-> CalculateEmploymentGrowth(allData.EmploymentData)]

\* the record built for one sector by the loop body, before the sort
\* (Rank is still 0)
ScoreOf(w, allData, sector, maps) ==
  LET momentum == getOrDefault(maps.momentumScores, sector, Fifty)
      valuation == getOrDefault(maps.valuationScores, sector, Fifty)
      growth == getOrDefault(maps.growthScores, sector, Fifty)
      innovation == getOrDefault(maps.innovationScores, sector, Fifty)
      macro == getOrDefault(maps.macroScores, sector, Fifty)
      returns == getOrDefault(maps.priceReturns, sector, EmptyMap)
  IN [Sector |-> sector,
      OpportunityScore |-> Opportunity(w, momentum, valuation, growth, innovation, macro),
      Rank |-> 0,
      MomentumScore |-> momentum,
      ValuationScore |-> valuation,
      GrowthScore |-> growth,
      InnovationScore |-> innovation,
      MacroScore |-> macro,
      PriceReturn3Mo |-> getOrDefault(returns, "3mo", Nil),
      PriceReturn6Mo |-> getOrDefault(returns, "6mo", Nil),
      PriceReturn12Mo |-> getOrDefault(returns, "12mo", Nil),
      RelativeStrength |-> getOrDefault(maps.relStrength, sector, Nil),
      ForwardPE |-> IF sector \in DOMAIN allData.SectorInfo
                    THEN allData.SectorInfo[sector].ForwardPE ELSE Nil,
      EmploymentGrowth |-> getOrDefault(maps.employmentGrowth, sector, Nil),
      RDIntensity |-> getOrDefault(allData.RDData, sector, Nil)]

\* a faulty loop: it appends a record only for the sectors that are keys of
\* the price map
BuildScoresOfPricedSectors(w, allData) ==
  LET maps == ScoreMaps(allData)
      names == SelectSeq(SectorNames, LAMBDA name : name \in DOMAIN allData.SectorPrices)
  IN [i \in 1..Len(names) |-> ScoreOf(w, allData, names[i], maps)]

\* the slice built by the loop over config.SectorNames, before the sort
BuildScores(w, allData) ==
  LET maps == ScoreMaps(allData)
  IN [i \in 1..Len(SectorNames) |-> ScoreOf(w, allData, SectorNames[i], maps)]

\* the less function of the sort: scores[i].OpportunityScore > scores[j].OpportunityScore
less(a, b) == FGt(a.OpportunityScore, b.OpportunityScore)

Perms(n) == {p \in [1..n -> 1..n] : \A i, j \in 1..n : p[i] = p[j] => i = j}

\* sort.Slice(list, less): some reordering of the list that sort.SliceIsSorted
\* accepts.  sort.Slice is documented as not stable, so the order of the
\* elements that less does not separate is a choice of the library.
SortSlice(list) ==
  {sorted \in {[i \in 1..Len(list) |-> list[p[i]]] : p \in Perms(Len(list))} :
     \A i \in 1..(Len(list) - 1) : ~less(sorted[i + 1], sorted[i])}

\* all that sort.Slice sees of a slice: its length and what less answers
\* for each pair of indices
LessAnswers(list) == [i \in 1..Len(list) |-> [j \in 1..Len(list) |-> less(list[i], list[j])]]

\* the reorderings behind SortSlice: p[i] is the index the element at i came from
SortOrders(list) ==
  {p \in Perms(Len(list)) :
     \A i \in 1..(Len(list) - 1) : ~less(list[p[i + 1]], list[p[i]])}

\* for i := range scores { scores[i].Rank = i + 1 }
AssignRanks(list) == [i \in 1..Len(list) |-> [list[i] EXCEPT !.Rank = i]]

(***************************************************************************)
(* analysis/scoring.go: GetSummaryReport                                   *)
(***************************************************************************)
\* math.Round(x*100)/100 of x = num/den, den > 0: halves away from zero
RoundAway(num, den) == IF num < 0 THEN -RoundDiv(-num, den) ELSE RoundDiv(num, den)

\* SectorRank{Rank, Sector, Score} of a record
SectorRankOf(score) ==
  [Rank |-> score.Rank, Sector |-> score.Sector, Score |-> score.OpportunityScore]

\* a faulty top list: it is empty for fewer than 3 records
TopSectorsOfThreeOrMore(list) ==
  IF Len(list) < 3 THEN << >> ELSE [i \in 1..3 |-> SectorRankOf(list[i])]

\* for i := 0; i < 3 && i < len(scores); i++
TopSectorsOf(list) ==
  [i \in 1..(IF Len(list) < 3 THEN Len(list) ELSE 3) |-> SectorRankOf(list[i])]

\* for i := len(scores) - 3; i < len(scores); i++ { if i >= 0 {...} }
BottomSectorsOf(list) ==
  LET first == IF Len(list) - 3 >= 0 THEN Len(list) - 3 ELSE 0
  IN [i \in 1..(Len(list) - first) |-> SectorRankOf(list[first + i])]

RECURSIVE DistributionFrom(_, _, _)
\* the loop over scores from index i on: acc holds sum (NaN once a NaN was
\* added), maxScore and minScore
DistributionFrom(list, i, acc) ==
  IF i > Len(list) THEN acc
  ELSE LET x == list[i].OpportunityScore
       IN DistributionFrom(list, i + 1,
            [sum |-> IF IsNaN(acc.sum) \/ IsNaN(x) THEN NaN ELSE acc.sum + x,
             maxScore |-> IF FGt(x, acc.maxScore) THEN x ELSE acc.maxScore,
             minScore |-> IF FGt(acc.minScore, x) THEN x ELSE acc.minScore])

\* ScoreDistribution of a non-empty list: var sum, maxScore, minScore
\* float64; minScore = 100; the loop; avgScore := sum / float64(len(scores))
ScoreDistributionOf(list) ==
  LET acc == DistributionFrom(list, 1, [sum |-> 0, maxScore |-> 0, minScore |-> Hundred])
  IN [Average |-> IF IsNaN(acc.sum) THEN NaN ELSE RoundAway(acc.sum, Len(list)),
      Max |-> acc.maxScore,
      Min |-> acc.minScore,
      Spread |-> acc.maxScore - acc.minScore]

\* a faulty test: a driver needs a score above 70
IsDriverAbove(score) == FGt(score, 7000)

\* topSector.XScore >= 70
IsDriver(score) == FGe(score, 7000)

\* the labels appended for the top record, in the order of the five tests
DriversOf(topSector) ==
  (IF IsDriver(topSector.MomentumScore) THEN <<"strong momentum">> ELSE << >>)
    \o (IF IsDriver(topSector.ValuationScore) THEN <<"attractive valuation">> ELSE << >>)
    \o (IF IsDriver(topSector.GrowthScore) THEN <<"employment growth">> ELSE << >>)
    \o (IF IsDriver(topSector.InnovationScore) THEN <<"high R&D investment">> ELSE << >>)
    \o (IF IsDriver(topSector.MacroScore) THEN <<"favorable macro positioning">> ELSE << >>)

\* time.Now().Format(time.RFC3339): the wall clock at the call, which
\* nothing in the engine reads
Timestamp == "time.Now()"

\* SummaryReport{Timestamp: ...}: every other field has its zero value
ZeroReport ==
  [Timestamp |-> Timestamp,
   TopSectors |-> << >>,
   BottomSectors |-> << >>,
   ScoreDistribution |-> [Average |-> 0, Max |-> 0, Min |-> 0, Spread |-> 0],
   TopSectorDrivers |-> << >>,
   WeightsUsed |-> "nil"]

\* s.GetSummaryReport(scores); weightsRef names the map s.Weights points to
GetSummaryReport(weightsRef, list) ==
  IF Len(list) = 0 THEN ZeroReport
  ELSE [Timestamp |-> Timestamp,
        TopSectors |-> TopSectorsOf(list),
        BottomSectors |-> BottomSectorsOf(list),
        ScoreDistribution |-> ScoreDistributionOf(list),
        TopSectorDrivers |-> DriversOf(list[1]),
        WeightsUsed |-> weightsRef]

(***************************************************************************)
(* State                                                                   *)
(***************************************************************************)
\* the goroutines that call the engine
NumCallers == 2

Callers == 1..NumCallers

\* number of concurrent requests on the AppState
NumRequests == 3

Requests == 1..NumRequests

\* the nil *data.AllData; the snapshot the k-th call of data.FetchAllData
\* returned is the pointer k
NilData == 0

\* the RWMutex with no holder: readers is the set of requests that hold the
\* read lock, writer the request that holds the write lock (0 for none)
MutexFree == [readers |-> {}, writer |-> 0]

VARIABLES
  values,          \* normalizer: the raw metric map passed in
  higherIsBetter,  \* normalizer: the polarity flag passed in
  normCall,        \* normalizer: "none", "minmax" or "zscore" (what ran)
  normResult,      \* normalizer: the map returned
  allData,         \* the snapshot handed to the engine (data.AllData)
  DefaultWeights,  \* the package variable config.DefaultWeights
  callerWeights,   \* the map the caller passes to NewSectorScorer, or nil
  scorer,          \* the SectorScorer: which map its Weights field points to
  scores,          \* the slice returned by CalculateScores, << >> before
  pc,              \* per caller: where it is in its request
  weights,         \* per caller: the variable weights of NewSectorScorer
  sum,             \* per caller: the variable sum of NewSectorScorer and
                   \*   the value of its guard
  results,         \* per caller: the slice CalculateScores returned
  summary,         \* per caller: the SummaryReport GetSummaryReport returned
  sortMemo,        \* how sort.Slice reordered, by what less answered
  mu,              \* AppState.mu: who holds the read lock and the write lock
  cachedData,      \* AppState.cachedData: nil or the snapshot of a fetch
  req,             \* per request on the AppState: the method, where it is,
                   \*   its local allData and what it returned
  fetches,         \* how many times data.FetchAllData was invoked
  query,           \* parseWeights: the value of each query parameter
  parsed,          \* parseWeights: the map returned, or nil
  parseDone        \* parseWeights: whether it has returned

normVars == <<values, higherIsBetter, normCall, normResult>>

scoreVars == <<allData, DefaultWeights, callerWeights, scorer, scores>>

callerVars == <<pc, weights, sum, results, summary, sortMemo>>

appVars == <<mu, cachedData, req, fetches>>

parseVars == <<query, parsed, parseDone>>

httpVars == <<mu, cachedData, req, fetches, query, parsed, parseDone>>

engineVars == <<normVars, scoreVars, callerVars>>

vars == <<values, higherIsBetter, normCall, normResult,
          allData, DefaultWeights, callerWeights, scorer, scores,
          pc, weights, sum, results, summary, sortMemo,
          mu, cachedData, req, fetches, query, parsed, parseDone>>

\* the caller's argument nil
NilWeights == [isNil |-> TRUE]

\* the snapshot with every collection empty
EmptySnapshot ==
  [SectorPrices |-> EmptyMap, SectorInfo |-> EmptyMap, MacroData |-> EmptyMap,
   EmploymentData |-> EmptyMap, RDData |-> EmptyMap]

\* the values of the variables an operation does not use
IdleNorm ==
  /\ values = EmptyMap
  /\ higherIsBetter = TRUE
  /\ normCall = "none"
  /\ normResult = EmptyMap

IdleScore ==
  /\ allData = EmptySnapshot
  /\ DefaultWeights = DefaultWeightsInit
  /\ callerWeights = NilWeights
  /\ scorer = "none"
  /\ scores = << >>

\* the local sum before the loop ran
NoSum == [num |-> 0, den |-> 1, rescale |-> FALSE]

IdleCallers ==
  /\ pc = [c \in Callers |-> "idle"]
  /\ weights = [c \in Callers |-> "nil"]
  /\ sum = [c \in Callers |-> NoSum]
  /\ results = [c \in Callers |-> << >>]
  /\ summary = [c \in Callers |-> ZeroReport]
  /\ sortMemo = EmptyMap

\* a request that has not called its method yet
NewRequest(op) == [op |-> op, pc |-> "start", allData |-> NilData, ret |-> NilData]

\* the state of NewAppState(), with no request running
IdleApp ==
  /\ mu = MutexFree
  /\ cachedData = NilData
  /\ req = [q \in Requests |-> NewRequest("GetData")]
  /\ fetches = 0

IdleParse ==
  /\ query = [param \in Signals |-> ""]
  /\ parsed = NilWeights
  /\ parseDone = FALSE

IdleHttp == IdleApp /\ IdleParse

(***************************************************************************)
(* The normalizers as operations on a raw metric map                       *)
(***************************************************************************)
\* raw metric values a map is drawn from; 1 of a spread of 32 gives a
\* min-max score of 3.125, halfway between two hundredths
RawValues == {-1, 0, 1, 32}

\* every map from some of the sectors to a raw value
RawMaps == UNION {[K -> RawValues] : K \in SUBSET Sectors}

InitNorm ==
  /\ values \in RawMaps
  /\ higherIsBetter \in BOOLEAN
  /\ normCall = "none"
  /\ normResult = EmptyMap
  /\ IdleScore
  /\ IdleCallers
  /\ IdleHttp

CallNormalizeScore ==
  /\ normCall = "none"
  /\ normResult' = NormalizeScore(values, higherIsBetter)
  /\ normCall' = "minmax"
  /\ UNCHANGED <<values, higherIsBetter>>
  /\ UNCHANGED scoreVars
  /\ UNCHANGED callerVars
  /\ UNCHANGED httpVars

CallNormalizeScoreZScore ==
  /\ normCall = "none"
  /\ normResult' = NormalizeScoreZScore(values, higherIsBetter)
  /\ normCall' = "zscore"
  /\ UNCHANGED <<values, higherIsBetter>>
  /\ UNCHANGED scoreVars
  /\ UNCHANGED callerVars
  /\ UNCHANGED httpVars

NextNorm == CallNormalizeScore \/ CallNormalizeScoreZScore

SpecNorm == InitNorm /\ [][NextNorm]_vars

(***************************************************************************)
(* The snapshots of the model                                              *)
(***************************************************************************)
\* price levels of the 13 months of a series, repeated for a longer one
LevelsUp == <<2, 4, 2, 4, 2, 4, 2, 4, 2, 4, 2, 4, 4>>

LevelsDown == <<4, 2, 4, 2, 4, 2, 4, 2, 4, 2, 4, 2, 2>>

\* a series whose first month of bars has the close 0
LevelsFromZero == <<0, 4, 2, 4, 2, 4, 2, 4, 2, 4, 2, 4, 4>>

\* a series of len bars: the close is constant over each 21 bars and follows
\* levels; the volume is vRecent over the last 20 bars and vOld before
MkSeries(len, levels, vOld, vRecent) ==
  [i \in 1..len |->
     [Close |-> levels[(((i - 1) \div TradingDaysPerMonth) % Len(levels)) + 1],
      Volume |-> IF i > len - 20 THEN vRecent ELSE vOld]]

\* the price series one key can have: too short for anything (19 bars), three
\* months, one year less a bar short of 12 monthly returns, 12 monthly
\* returns rising or falling, and a year that starts from the close 0
PriceFamily ==
  {MkSeries(19, LevelsUp, 1, 1),
   MkSeries(63, LevelsUp, 1, 6),
   MkSeries(252, LevelsDown, 6, 1),
   MkSeries(253, LevelsUp, 1, 6),
   MkSeries(253, LevelsDown, 1, 1),
   MkSeries(253, LevelsFromZero, 1, 1)}

\* a positive forward P/E, a zero one, and a missing one (nil)
InfoFamily == {[ForwardPE |-> pe] : pe \in {Nil, 0, 10, 20}}

\* monthly employment: 12 observations, 13 flat, 13 growing by 10 percent,
\* 13 whose year-ago value is 0, and 14 that start from 50, stay at 100 and
\* end at 110
EmploymentFamily ==
  {[Values |-> [i \in 1..12 |-> 100]],
   [Values |-> [i \in 1..13 |-> 100]],
   [Values |-> [i \in 1..13 |-> IF i = 13 THEN 110 ELSE 100]],
   [Values |-> [i \in 1..13 |-> IF i = 1 THEN 0 ELSE 100]],
   [Values |-> [i \in 1..14 |-> IF i = 1 THEN 50 ELSE IF i = 14 THEN 110 ELSE 100]]}

RDFamily == {0, 1, 3}

\* the rate series: none, 12 values (11 changes), 13 values (12 changes),
\* 15 values (14 changes) and 13 zeros (no change at all)
RateFamily ==
  {[Values |-> << >>],
   [Values |-> [i \in 1..12 |-> IF i % 2 = 1 THEN 2 ELSE 4]],
   [Values |-> [i \in 1..13 |-> IF i % 2 = 1 THEN 2 ELSE 4]],
   [Values |-> [i \in 1..15 |-> IF i % 3 = 1 THEN 4 ELSE 2]],
   [Values |-> [i \in 1..13 |-> 0]]}

\* every map from some of the keys to a member of the family
MapsOver(keys, family) == UNION {[K -> family] : K \in SUBSET keys}

MacroFamily ==
  {EmptyMap} \cup {[name \in {"treasury_10y"} |-> ts] : ts \in RateFamily}
    \cup {[name \in {"fed_funds"} |-> ts] : ts \in RateFamily}

\* a snapshot with data for every sector, different from sector to sector
FullSnapshot ==
  [SectorPrices |->
     [key \in Sectors \cup {Benchmark} |->
        IF key % 2 = 1 THEN MkSeries(253, LevelsUp, 1, 6)
        ELSE MkSeries(253, LevelsDown, 1, 1)],
   SectorInfo |-> [sector \in Sectors |-> [ForwardPE |-> 10 * sector]],
   MacroData |-> [name \in {"treasury_10y"} |->
                    [Values |-> [i \in 1..13 |-> IF i % 2 = 1 THEN 2 ELSE 4]]],
   EmploymentData |->
     [sector \in Sectors |-> [Values |-> [i \in 1..13 |-> IF i = 13 THEN 100 + sector ELSE 100]]],
   RDData |-> [sector \in Sectors |-> sector]]

BaseSnapshots == {EmptySnapshot, FullSnapshot}

\* the snapshots of the model: a base snapshot with one of its collections
\* replaced by any partial or complete collection
SnapshotsOf(bases) ==
  UNION {
    {[base EXCEPT !.SectorPrices = x] : x \in MapsOver(Sectors \cup {Benchmark}, PriceFamily)}
      \cup {[base EXCEPT !.SectorInfo = x] : x \in MapsOver(Sectors, InfoFamily)}
      \cup {[base EXCEPT !.MacroData = x] : x \in MacroFamily}
      \cup {[base EXCEPT !.EmploymentData = x] : x \in MapsOver(Sectors, EmploymentFamily)}
      \cup {[base EXCEPT !.RDData = x] : x \in MapsOver(Sectors, RDFamily)}
    : base \in bases}

\* the weights a caller supplies, in hundredths: 0, 0.2 and 2
WeightLevels == {0, 20, 200}

WeightMaps == {[isNil |-> FALSE, num |-> n, den |-> 100] : n \in [Signals -> WeightLevels]}

\* no weights, and five weights of 2
FewWeights ==
  {NilWeights, [isNil |-> FALSE, num |-> [k \in Signals |-> 200], den |-> 100]}

(***************************************************************************)
(* The scorer: NewSectorScorer, then CalculateScores on the snapshot       *)
(***************************************************************************)
InitScore ==
  /\ \/ allData \in SnapshotsOf(BaseSnapshots) /\ callerWeights \in FewWeights
     \/ allData \in BaseSnapshots /\ callerWeights \in WeightMaps
  /\ DefaultWeights = DefaultWeightsInit
  /\ scorer = "none"
  /\ scores = << >>
  /\ IdleNorm
  /\ IdleCallers
  /\ IdleHttp

\* the map s.Weights points to
WeightsOf(ref) == IF ref = "DefaultWeights" THEN DefaultWeights ELSE callerWeights

\* NewSectorScorer(weights): weights is callerWeights; the loop writes into
\* the map weights points to, which is config.DefaultWeights when the
\* caller passed nil
NewSectorScorer ==
  /\ scorer = "none"
  /\ IF callerWeights.isNil
     THEN /\ \E rescale \in GuardOutcomes(DefaultWeights) :
               DefaultWeights' = RescaledIf(DefaultWeights, rescale)
          /\ scorer' = "DefaultWeights"
          /\ UNCHANGED callerWeights
     ELSE /\ \E rescale \in GuardOutcomes(callerWeights) :
               callerWeights' = RescaledIf(callerWeights, rescale)
          /\ scorer' = "callerWeights"
          /\ UNCHANGED DefaultWeights
  /\ UNCHANGED <<allData, scores>>
  /\ UNCHANGED normVars
  /\ UNCHANGED callerVars
  /\ UNCHANGED httpVars

\* s.CalculateScores(allData)
CalculateScores ==
  /\ scorer # "none"
  /\ scores = << >>
  /\ \E sorted \in SortSlice(BuildScores(WeightsOf(scorer), allData)) :
       scores' = AssignRanks(sorted)
  /\ UNCHANGED <<allData, DefaultWeights, callerWeights, scorer>>
  /\ UNCHANGED normVars
  /\ UNCHANGED callerVars
  /\ UNCHANGED httpVars

NextScore == NewSectorScorer \/ CalculateScores

Spec == InitScore /\ [][NextScore]_vars

(***************************************************************************)
(* Several callers: each runs NewSectorScorer, CalculateScores and         *)
(* GetSummaryReport (RunAnalysis) on the one snapshot, with nil or with    *)
(* the one map callerWeights as its weights                                *)
(***************************************************************************)
\* the map all callers that supply weights pass: five weights of 2, or
\* 0.93, 0.04, 0.02, 0 and 0, which sum to 0.99
SuppliedWeights ==
  {[isNil |-> FALSE, num |-> [k \in Signals |-> 200], den |-> 100],
   [isNil |-> FALSE,
    num |-> [k \in Signals |->
               CASE k = "momentum" -> 93
                 [] k = "valuation" -> 4
                 [] k = "growth" -> 2
                 [] k = "innovation" -> 0
                 [] k = "macro" -> 0],
    den |-> 100]}

\* the snapshots the callers share hold a forward P/E for every sector and
\* nothing else: in one all P/Es differ, in the other the first two sectors
\* have the same P/E and so the same scores
CallerSnapshots ==
  {[EmptySnapshot EXCEPT
      !.SectorInfo = [sector \in Sectors |-> [ForwardPE |-> 10 * sector]]],
   [EmptySnapshot EXCEPT
      !.SectorInfo = [sector \in Sectors |->
                        [ForwardPE |-> IF sector <= 2 THEN 10 ELSE 10 * sector]]]}

InitCallers ==
  /\ allData \in CallerSnapshots
  /\ DefaultWeights = DefaultWeightsInit
  /\ callerWeights \in SuppliedWeights
  /\ scorer = "none"
  /\ scores = << >>
  /\ IdleNorm
  /\ pc = [c \in Callers |-> "idle"]
  \* the callers are alike: those without weights are listed first
  /\ weights \in [Callers -> {"nil", "callerWeights"}]
  /\ \A a, b \in Callers : (a < b /\ weights[a] = "callerWeights") => weights[b] = "callerWeights"
  /\ sum = [c \in Callers |-> NoSum]
  /\ results = [c \in Callers |-> << >>]
  /\ summary = [c \in Callers |-> ZeroReport]
  /\ sortMemo = EmptyMap
  /\ IdleHttp

\* caller c is between the loop that sums the map and the loop that writes
\* weights[k] = v / sum into it
Writing(c) == pc[c] = "summed" /\ sum[c].rescale

\* the next step of caller c reads the map its weights points to
ReadsNext(c) == pc[c] \in {"idle", "built"}

\* two callers run without synchronization on the same map, one about to
\* write it and the other about to read or write it
Race ==
  \E a, b \in Callers :
    /\ a # b
    /\ WeightsRef(weights[a]) = WeightsRef(weights[b])
    /\ Writing(a)
    /\ ReadsNext(b) \/ Writing(b)

\* NewSectorScorer(weights), up to the guard: the nil check, the loop
\* sum += w and the evaluation of the guard
SumWeights(c) ==
  /\ pc[c] = "idle"
  /\ weights' = [weights EXCEPT ![c] = WeightsRef(weights[c])]
  /\ LET w == WeightsOf(WeightsRef(weights[c]))
     IN \E rescale \in GuardOutcomes(w) :
          sum' = [sum EXCEPT ![c] = [num |-> NumSum(w), den |-> w.den, rescale |-> rescale]]
  /\ pc' = [pc EXCEPT ![c] = "summed"]
  /\ UNCHANGED <<results, summary, sortMemo>>
  /\ UNCHANGED scoreVars
  /\ UNCHANGED normVars
  /\ UNCHANGED httpVars

\* the loop weights[k] = v / sum, when the guard holds, and the return
RescaleWeights(c) ==
  /\ pc[c] = "summed"
  /\ IF ~sum[c].rescale THEN UNCHANGED <<DefaultWeights, callerWeights>>
     ELSE IF weights[c] = "DefaultWeights"
          THEN /\ DefaultWeights' = DividedBySum(DefaultWeights, sum[c])
               /\ UNCHANGED callerWeights
          ELSE /\ callerWeights' = DividedBySum(callerWeights, sum[c])
               /\ UNCHANGED DefaultWeights
  /\ pc' = [pc EXCEPT ![c] = "built"]
  /\ UNCHANGED <<weights, sum, results, summary, sortMemo>>
  /\ UNCHANGED <<allData, scorer, scores>>
  /\ UNCHANGED normVars
  /\ UNCHANGED httpVars

\* a faulty engine: it fills the R&D map of the snapshot in place
SnapshotAfterScoringFilled(snapshot) ==
  [snapshot EXCEPT !.RDData = FillMissing(@, 0)]

\* the snapshot after CalculateScores ran on it: no calculator and no
\* statement of CalculateScores assigns through allData
SnapshotAfterScoring(snapshot) == snapshot

\* s.CalculateScores(allData) of caller c.  sort.Slice is an algorithm
\* without a state of its own: it moves the elements by what less answers,
\* so it reorders two slices with the same answers in the same way
RunCalculateScores(c) ==
  /\ pc[c] = "built"
  /\ LET list == BuildScores(WeightsOf(weights[c]), allData)
         answers == LessAnswers(list)
     IN IF answers \in DOMAIN sortMemo
        THEN /\ results' = [results EXCEPT ![c] =
                              AssignRanks([i \in 1..Len(list) |-> list[sortMemo[answers][i]]])]
             /\ UNCHANGED sortMemo
        ELSE \E p \in SortOrders(list) :
               /\ results' = [results EXCEPT ![c] =
                                AssignRanks([i \in 1..Len(list) |-> list[p[i]]])]
               /\ sortMemo' = [x \in DOMAIN sortMemo \cup {answers} |->
                                 IF x = answers THEN p ELSE sortMemo[x]]
  /\ allData' = SnapshotAfterScoring(allData)
  /\ pc' = [pc EXCEPT ![c] = "scored"]
  /\ UNCHANGED <<weights, sum, summary>>
  /\ UNCHANGED <<DefaultWeights, callerWeights, scorer, scores>>
  /\ UNCHANGED normVars
  /\ UNCHANGED httpVars

\* s.GetSummaryReport(scores) of caller c
RunGetSummaryReport(c) ==
  /\ pc[c] = "scored"
  /\ summary' = [summary EXCEPT ![c] = GetSummaryReport(weights[c], results[c])]
  /\ pc' = [pc EXCEPT ![c] = "reported"]
  /\ UNCHANGED <<weights, sum, results, sortMemo>>
  /\ UNCHANGED scoreVars
  /\ UNCHANGED normVars
  /\ UNCHANGED httpVars

\* the runtime detects the concurrent use of a map and ends the process
\* ("fatal error: concurrent map writes")
ConcurrentMapFault ==
  /\ Race
  /\ pc' = [c \in Callers |-> "fatal"]
  /\ UNCHANGED <<weights, sum, results, summary, sortMemo>>
  /\ UNCHANGED scoreVars
  /\ UNCHANGED normVars
  /\ UNCHANGED httpVars

NextCallers ==
  \/ \E c \in Callers : SumWeights(c)
  \/ \E c \in Callers : RescaleWeights(c)
  \/ \E c \in Callers : RunCalculateScores(c)
  \/ \E c \in Callers : RunGetSummaryReport(c)
  \/ ConcurrentMapFault

SpecCallers == InitCallers /\ [][NextCallers]_vars

(***************************************************************************)
(* GetSummaryReport as an operation on a list of scores                    *)
(***************************************************************************)
\* the longest list of the model
MaxScores == 4

\* opportunity scores of the lists: -60, 30 and NaN
OppLevels == {-6000, 3000, NaN}

\* the component scores of the first record: each 69.99 or 70
TopProfiles == [Signals -> {6999, 7000}]

\* the component scores of the other records: all 80 or all 50
RestProfiles == {[k \in Signals |-> 8000], [k \in Signals |-> Fifty]}

\* a SectorScore without raw metrics
MkScore(sector, opportunity, rank, profile) ==
  [Sector |-> sector,
   OpportunityScore |-> opportunity,
   Rank |-> rank,
   MomentumScore |-> profile["momentum"],
   ValuationScore |-> profile["valuation"],
   GrowthScore |-> profile["growth"],
   InnovationScore |-> profile["innovation"],
   MacroScore |-> profile["macro"],
   PriceReturn3Mo |-> Nil,
   PriceReturn6Mo |-> Nil,
   PriceReturn12Mo |-> Nil,
   RelativeStrength |-> Nil,
   ForwardPE |-> Nil,
   EmploymentGrowth |-> Nil,
   RDIntensity |-> Nil]

\* the lists passed to GetSummaryReport: 0 to MaxScores records
ReportLists ==
  UNION {
    {[i \in 1..n |-> MkScore(i, opps[i], i, IF i = 1 THEN top ELSE rest)] :
       opps \in [1..n -> OppLevels], top \in TopProfiles, rest \in RestProfiles}
    : n \in 0..MaxScores}

InitReport ==
  /\ IdleNorm
  /\ IdleScore
  /\ pc = [c \in Callers |-> IF c = 1 THEN "scored" ELSE "idle"]
  /\ weights = [c \in Callers |-> IF c = 1 THEN "DefaultWeights" ELSE "nil"]
  /\ sum = [c \in Callers |-> NoSum]
  /\ \E list \in ReportLists :
       results = [c \in Callers |-> IF c = 1 THEN list ELSE << >>]
  /\ summary = [c \in Callers |-> ZeroReport]
  /\ sortMemo = EmptyMap
  /\ IdleHttp

NextReport == \E c \in Callers : RunGetSummaryReport(c)

SpecReport == InitReport /\ [][NextReport]_vars

(***************************************************************************)
(* api/handlers.go: AppState.GetData and AppState.RefreshData, one step    *)
(* per operation on s.mu and per access of s.cachedData                    *)
(***************************************************************************)
\* request q runs the method op and is at the position where
At(q, op, where) == req[q].op = op /\ req[q].pc = where

\* GetData: s.mu.RLock()
RLock(q) ==
  /\ At(q, "GetData", "start")
  /\ mu.writer = 0
  /\ mu' = [mu EXCEPT !.readers = @ \cup {q}]
  /\ req' = [req EXCEPT ![q].pc = "rlocked"]
  /\ UNCHANGED <<cachedData, fetches>>
  /\ UNCHANGED parseVars
  /\ UNCHANGED engineVars

\* GetData: if s.cachedData != nil, under the read lock
CheckCached(q) ==
  /\ At(q, "GetData", "rlocked")
  /\ req' = [req EXCEPT ![q].pc = IF cachedData # NilData THEN "hit" ELSE "miss"]
  /\ UNCHANGED <<mu, cachedData, fetches>>
  /\ UNCHANGED parseVars
  /\ UNCHANGED engineVars

\* GetData: s.mu.RUnlock(), on either branch
RUnlock(q) ==
  /\ At(q, "GetData", "hit") \/ At(q, "GetData", "miss")
  /\ mu' = [mu EXCEPT !.readers = @ \ {q}]
  /\ req' = [req EXCEPT ![q].pc = IF req[q].pc = "hit" THEN "returning" ELSE "waiting"]
  /\ UNCHANGED <<cachedData, fetches>>
  /\ UNCHANGED parseVars
  /\ UNCHANGED engineVars

\* GetData: return s.cachedData, after s.mu.RUnlock().  The read is not
\* synchronized with a write of s.cachedData; it gives the pointer stored
\* before or after that write, as this step comes before or after it
ReturnCached(q) ==
  /\ At(q, "GetData", "returning")
  /\ req' = [req EXCEPT ![q].ret = cachedData, ![q].pc = "done"]
  /\ UNCHANGED <<mu, cachedData, fetches>>
  /\ UNCHANGED parseVars
  /\ UNCHANGED engineVars

\* GetData: s.mu.Lock()
Lock(q) ==
  /\ At(q, "GetData", "waiting")
  /\ mu = MutexFree
  /\ mu' = [mu EXCEPT !.writer = q]
  /\ req' = [req EXCEPT ![q].pc = "locked"]
  /\ UNCHANGED <<cachedData, fetches>>
  /\ UNCHANGED parseVars
  /\ UNCHANGED engineVars

\* a faulty GetData: no second check after s.mu.Lock()
CheckAgainSkipped(q) ==
  /\ At(q, "GetData", "locked")
  /\ req' = [req EXCEPT ![q].pc = "fetching"]
  /\ UNCHANGED <<mu, cachedData, fetches>>
  /\ UNCHANGED parseVars
  /\ UNCHANGED engineVars

\* GetData: if s.cachedData != nil { return s.cachedData }, under the write
\* lock
CheckAgain(q) ==
  /\ At(q, "GetData", "locked")
  /\ req' = IF cachedData # NilData
            THEN [req EXCEPT ![q].ret = cachedData, ![q].pc = "unlocking"]
            ELSE [req EXCEPT ![q].pc = "fetching"]
  /\ UNCHANGED <<mu, cachedData, fetches>>
  /\ UNCHANGED parseVars
  /\ UNCHANGED engineVars

\* RefreshData: s.mu.Lock()
RefreshLock(q) ==
  /\ At(q, "RefreshData", "start")
  /\ mu = MutexFree
  /\ mu' = [mu EXCEPT !.writer = q]
  /\ req' = [req EXCEPT ![q].pc = "fetching"]
  /\ UNCHANGED <<cachedData, fetches>>
  /\ UNCHANGED parseVars
  /\ UNCHANGED engineVars

\* both methods: allData, _ := data.FetchAllData(), which returns a new
\* snapshot (never nil)
Fetch(q) ==
  /\ req[q].pc = "fetching"
  /\ fetches' = fetches + 1
  /\ req' = [req EXCEPT ![q].allData = fetches + 1, ![q].pc = "fetched"]
  /\ UNCHANGED <<mu, cachedData>>
  /\ UNCHANGED parseVars
  /\ UNCHANGED engineVars

\* both methods: s.cachedData = allData; return s.cachedData
Store(q) ==
  /\ req[q].pc = "fetched"
  /\ cachedData' = req[q].allData
  /\ req' = [req EXCEPT ![q].ret = req[q].allData, ![q].pc = "unlocking"]
  /\ UNCHANGED <<mu, fetches>>
  /\ UNCHANGED parseVars
  /\ UNCHANGED engineVars

\* both methods: the deferred s.mu.Unlock()
Unlock(q) ==
  /\ req[q].pc = "unlocking"
  /\ mu' = [mu EXCEPT !.writer = 0]
  /\ req' = [req EXCEPT ![q].pc = "done"]
  /\ UNCHANGED <<cachedData, fetches>>
  /\ UNCHANGED parseVars
  /\ UNCHANGED engineVars

\* the steps of GetData
NextGetData ==
  \/ \E q \in Requests : RLock(q)
  \/ \E q \in Requests : CheckCached(q)
  \/ \E q \in Requests : RUnlock(q)
  \/ \E q \in Requests : ReturnCached(q)
  \/ \E q \in Requests : Lock(q)
  \/ \E q \in Requests : CheckAgain(q)
  \/ \E q \in Requests : Fetch(q)
  \/ \E q \in Requests : Store(q)
  \/ \E q \in Requests : Unlock(q)

IdleEngine == IdleNorm /\ IdleScore /\ IdleCallers

\* concurrent calls of GetData and RefreshData on a new AppState
InitApp ==
  /\ mu = MutexFree
  /\ cachedData = NilData
  /\ req \in [Requests -> {NewRequest("GetData"), NewRequest("RefreshData")}]
  /\ fetches = 0
  /\ IdleParse
  /\ IdleEngine

NextApp == NextGetData \/ \E q \in Requests : RefreshLock(q)

SpecApp == InitApp /\ [][NextApp]_vars

\* concurrent calls of GetData only on a new AppState.  A goroutine that
\* can take a step takes one in the end, and data.FetchAllData returns
InitGetData == IdleApp /\ IdleParse /\ IdleEngine

SpecGetData == InitGetData /\ [][NextGetData]_vars /\ WF_vars(NextGetData)

(***************************************************************************)
(* api/handlers.go: parseWeights                                           *)
(***************************************************************************)
\* params := []string{"momentum", "valuation", "growth", "innovation", "macro"}
params == <<"momentum", "valuation", "growth", "innovation", "macro">>

\* the values r.URL.Query().Get(param) takes in the model; "" is what Get
\* returns for a parameter that is not in the query
QueryValues == {"", "abc", "NaN", "1.5", "0", "0.5", "1"}

\* strconv.ParseFloat(val, 64): whether it fails and, in hundredths, the
\* number it returns
ParseFloat(val) ==
  CASE val = "NaN" -> [err |-> FALSE, f |-> NaN]
    [] val = "1.5" -> [err |-> FALSE, f |-> 150]
    [] val = "0" -> [err |-> FALSE, f |-> 0]
    [] val = "0.5" -> [err |-> FALSE, f |-> 50]
    [] val = "1" -> [err |-> FALSE, f |-> 100]
    [] OTHER -> [err |-> TRUE, f |-> 0]

\* a faulty test: every number from 0 on is taken
acceptedAnyAbove(val) ==
  val # "" /\ ~ParseFloat(val).err /\ FGe(ParseFloat(val).f, 0)

\* val != "" and err == nil && f >= 0 && f <= 1
accepted(val) ==
  val # "" /\ ~ParseFloat(val).err /\ FGe(ParseFloat(val).f, 0) /\ FGe(100, ParseFloat(val).f)

\* parseWeights(r) for the query q and the defaults config.DefaultWeights;
\* the weights are first put over the denominator 100 * defaults.den
parseWeights(q, defaults) ==
  LET hasAny == \E i \in DOMAIN params : accepted(q[params[i]])
      filled == [isNil |-> FALSE,
                 num |-> [param \in Signals |->
                            IF accepted(q[param]) THEN ParseFloat(q[param]).f * defaults.den
                            ELSE defaults.num[param] * 100],
                 den |-> 100 * defaults.den]
  IN IF ~hasAny THEN NilWeights
     ELSE IF NumSum(filled) > 0
     THEN DividedBySum(filled, [num |-> NumSum(filled), den |-> filled.den])
     ELSE Reduced(filled)

InitParse ==
  /\ query \in [Signals -> QueryValues]
  /\ parsed = NilWeights
  /\ parseDone = FALSE
  /\ IdleApp
  /\ IdleEngine

CallParseWeights ==
  /\ ~parseDone
  /\ parsed' = parseWeights(query, DefaultWeights)
  /\ parseDone' = TRUE
  /\ UNCHANGED query
  /\ UNCHANGED appVars
  /\ UNCHANGED engineVars

NextParse == CallParseWeights

SpecParse == InitParse /\ [][NextParse]_vars

(***************************************************************************)
(* Properties of CalculateScores and NewSectorScorer (specification Spec)  *)
(***************************************************************************)
\* CalculateScores has returned
Scored == scores # << >>

\* the effective weights of the scorer sum to exactly 1.0
WeightsSumToOne == scorer # "none" /\ NumSum(WeightsOf(scorer)) = WeightsOf(scorer).den

\* x is a number of [0, 100]
InRange(x) == FGe(x, 0) /\ FGe(Hundred, x)

\* the weighted sum of the five reported component scores of a record, as
\* the numerator over the denominator of the weights
WeightedNum(w, r) ==
  w.num["momentum"] * r.MomentumScore + w.num["valuation"] * r.ValuationScore
    + w.num["growth"] * r.GrowthScore + w.num["innovation"] * r.InnovationScore
    + w.num["macro"] * r.MacroScore

ComponentsOf(r) ==
  {r.MomentumScore, r.ValuationScore, r.GrowthScore, r.InnovationScore, r.MacroScore}

\* a collection of the snapshot has data for some sectors and not for others
PartialSnapshot ==
  \/ DOMAIN allData.SectorInfo \notin {{}, Sectors}
  \/ DOMAIN allData.SectorPrices \notin {{}, Sectors \cup {Benchmark}}
  \/ DOMAIN allData.EmploymentData \notin {{}, Sectors}
  \/ DOMAIN allData.RDData \notin {{}, Sectors}

\* C1: the list returned by CalculateScores holds exactly one record for
\* every name of config.SectorNames and no record for any other name (the
\* benchmark included), whatever the snapshot and the weights
C1_OneRecordPerSector ==
  Scored =>
    /\ Len(scores) = Len(SectorNames)
    /\ \A n \in 1..Len(SectorNames) :
         Cardinality({i \in 1..Len(scores) : scores[i].Sector = SectorNames[n]}) = 1
    /\ \A i \in 1..Len(scores) : scores[i].Sector \in Sectors /\ scores[i].Sector # Benchmark

\* C1 witness: scores were returned for a snapshot in which a collection
\* covers only some of the sectors
C1_Witness == Scored /\ PartialSnapshot /\ Benchmark \in DOMAIN allData.SectorPrices

\* C2: in the returned list the ranks are a permutation of 1..N, the list is
\* in non-increasing order of opportunity score, and the record of rank 1
\* has the largest opportunity score of all
C2_RankedByScore ==
  Scored =>
    /\ {scores[i].Rank : i \in 1..Len(scores)} = 1..Len(scores)
    /\ Cardinality({scores[i].Rank : i \in 1..Len(scores)}) = Len(scores)
    /\ \A i \in 1..(Len(scores) - 1) :
         FGe(scores[i].OpportunityScore, scores[i + 1].OpportunityScore)
    /\ \A i, j \in 1..Len(scores) :
         scores[i].Rank = 1 => FGe(scores[i].OpportunityScore, scores[j].OpportunityScore)

\* C3: the sort is stable: of two records with equal opportunity scores the
\* one whose sector comes first in config.SectorNames has the smaller rank
C3_StableRanks ==
  Scored =>
    \A i, j \in 1..Len(scores) :
      (FEq(scores[i].OpportunityScore, scores[j].OpportunityScore)
         /\ scores[i].Sector < scores[j].Sector)
        => scores[i].Rank < scores[j].Rank

\* C4: with effective weights that sum to 1.0, the opportunity score of
\* every record is within 0.01 of the weighted sum of its five reported
\* component scores
C4_WeightedSum ==
  (Scored /\ WeightsSumToOne) =>
    \A i \in 1..Len(scores) :
      LET w == WeightsOf(scorer)
          r == scores[i]
      IN /\ ~IsNaN(r.OpportunityScore)
         /\ \A c \in ComponentsOf(r) : ~IsNaN(c)
         /\ Abs(w.den * r.OpportunityScore - WeightedNum(w, r)) <= w.den

\* C5 (as claimed): construction from any supplied map of non-negative
\* weights leaves five effective weights that sum to 1.0 within 0.01, each
\* the supplied weight divided by the supplied sum when the rescaling applies
C5_AlwaysNormalized ==
  [][(scorer = "none" /\ scorer' = "callerWeights") =>
       /\ 100 * Abs(NumSum(callerWeights') - callerWeights'.den) <= callerWeights'.den
       /\ NeedsRescale(callerWeights) =>
            \A k \in Signals :
              callerWeights'.num[k] * NumSum(callerWeights)
                = callerWeights.num[k] * callerWeights'.den]_vars

\* C5 (amended): construction from a supplied map of non-negative weights
\* with a positive sum leaves five effective weights that sum to 1.0 within
\* 0.01, each the supplied weight divided by the supplied sum when the
\* rescaling applies; a map whose weights are all 0 is left as it is
C5_NormalizedIfPositive ==
  [][(scorer = "none" /\ scorer' = "callerWeights") =>
       /\ NumSum(callerWeights) > 0 =>
            100 * Abs(NumSum(callerWeights') - callerWeights'.den) <= callerWeights'.den
       /\ NeedsRescale(callerWeights) =>
            \A k \in Signals :
              callerWeights'.num[k] * NumSum(callerWeights)
                = callerWeights.num[k] * callerWeights'.den
       /\ callerWeights' \in {callerWeights, RescaledIf(callerWeights, TRUE)}
       /\ (~NeedsRescale(callerWeights) /\ ~SumOnBoundary(callerWeights))
            => callerWeights' = callerWeights
       /\ NumSum(callerWeights) = 0 => NumSum(callerWeights') = 0]_vars

\* C5 witness: a scorer was built from five supplied weights of 2, which
\* are now 2/10 each
C5_Witness ==
  /\ scorer = "callerWeights"
  /\ \A k \in Signals : callerWeights.num[k] = 200
  /\ callerWeights.den = 1000

\* C6: with effective weights that sum to 1.0, every component score and
\* every opportunity score of the returned list lies in [0, 100], however
\* incomplete the snapshot
C6_ScoresInRange ==
  (Scored /\ WeightsSumToOne) =>
    \A i \in 1..Len(scores) :
      /\ InRange(scores[i].OpportunityScore)
      /\ \A c \in ComponentsOf(scores[i]) : InRange(c)

\* C10: for the snapshot with every collection empty, CalculateScores
\* returns the full list, every component score is 50 and, with weights that
\* sum to 1.0, every opportunity score is 50; the ranks are 1..N
C10_EmptySnapshotNeutral ==
  (Scored /\ allData = EmptySnapshot) =>
    /\ Len(scores) = Len(SectorNames)
    /\ {scores[i].Sector : i \in 1..Len(scores)} = Sectors
    /\ \A i \in 1..Len(scores) :
         /\ ComponentsOf(scores[i]) = {Fifty}
         /\ WeightsSumToOne => scores[i].OpportunityScore = Fifty
         /\ scores[i].Rank = i

\* C10 witness: scores were returned for the empty snapshot under weights
\* that sum to 1.0
C10_Witness == Scored /\ allData = EmptySnapshot /\ WeightsSumToOne

\* the snapshot has no usable reference interest-rate series
NoRateSeries ==
  \/ "treasury_10y" \notin DOMAIN allData.MacroData
  \/ Len(allData.MacroData["treasury_10y"].Values) = 0

\* C11: when the macro data has no treasury_10y key, or the series of that
\* key has no values, every record has macro score 50 and its opportunity
\* score is the rounded weighted sum of its four other reported scores and
\* a macro score of 50 (NaN where one of the four is NaN)
C11_MacroPinnedAtFifty ==
  (Scored /\ NoRateSeries) =>
    \A i \in 1..Len(scores) :
      LET r == scores[i]
      IN /\ r.MacroScore = Fifty
         /\ r.OpportunityScore
              = Opportunity(WeightsOf(scorer), r.MomentumScore, r.ValuationScore,
                            r.GrowthScore, r.InnovationScore, Fifty)

\* C11 witness: scores were returned for a snapshot that has prices and a
\* treasury_10y key with an empty series, and some record has a number other
\* than 50 as its opportunity score
C11_Witness ==
  /\ Scored
  /\ "treasury_10y" \in DOMAIN allData.MacroData
  /\ NoRateSeries
  /\ allData.SectorPrices # EmptyMap
  /\ \E i \in 1..Len(scores) :
       ~IsNaN(scores[i].OpportunityScore) /\ scores[i].OpportunityScore # Fifty

\* the sectors with an R&D intensity above 0
WithRD == {sector \in DOMAIN allData.RDData : allData.RDData[sector] > 0}

\* C12 (as claimed): for every R&D map, empty or not, every configured
\* sector with no R&D intensity or an intensity <= 0 has innovation score 30
C12_PenalizedWithoutRD ==
  Scored =>
    \A i \in 1..Len(scores) :
      scores[i].Sector \notin WithRD => scores[i].InnovationScore = InnovationDefault

\* C12 (amended): when some sector has an R&D intensity above 0, every
\* configured sector with none or with an intensity <= 0 has innovation
\* score 30 and the others have the z-score of the map of the positive
\* intensities alone; when no sector has one (the map is empty or holds no
\* value above 0) every sector has 50
C12_PenalizedBesidePositiveRD ==
  Scored =>
    \A i \in 1..Len(scores) :
      LET r == scores[i]
          positive == [sector \in WithRD |-> allData.RDData[sector]]
      IN IF WithRD = {} THEN r.InnovationScore = Fifty
         ELSE IF r.Sector \in WithRD
              THEN r.InnovationScore = NormalizeScoreZScore(positive, TRUE)[r.Sector]
              ELSE r.InnovationScore = InnovationDefault

\* C12 witness: scores were returned for an R&D map with two sectors above
\* 0 and one sector at 0, which has innovation score 30
C12_Witness ==
  /\ Scored
  /\ Cardinality(WithRD) >= 2
  /\ \E i \in 1..Len(scores) :
       /\ scores[i].Sector \in DOMAIN allData.RDData
       /\ allData.RDData[scores[i].Sector] = 0
       /\ scores[i].InnovationScore = InnovationDefault

\* the sectors with a forward P/E above 0 in the sector info
WithPE ==
  {sector \in DOMAIN allData.SectorInfo :
     /\ allData.SectorInfo[sector].ForwardPE # Nil
     /\ allData.SectorInfo[sector].ForwardPE > 0}

\* C13: of two sectors that both have a forward P/E above 0, the one with
\* the lower P/E has a valuation score at least that of the other; a sector
\* without a P/E above 0 has valuation score 50
C13_LowerPEScoresHigher ==
  Scored =>
    /\ \A i, j \in 1..Len(scores) :
         (/\ scores[i].Sector \in WithPE
          /\ scores[j].Sector \in WithPE
          /\ scores[i].ForwardPE < scores[j].ForwardPE)
           => /\ ~IsNaN(scores[i].ValuationScore)
              /\ ~IsNaN(scores[j].ValuationScore)
              /\ scores[i].ValuationScore >= scores[j].ValuationScore
    /\ \A i \in 1..Len(scores) :
         scores[i].Sector \notin WithPE => scores[i].ValuationScore = Fifty

\* C13 witness: scores were returned where a sector with the lower of two
\* positive P/Es has the strictly higher valuation score and a third sector
\* has no positive P/E
C13_Witness ==
  /\ Scored
  /\ \E i, j \in 1..Len(scores) :
       /\ scores[i].Sector \in WithPE
       /\ scores[j].Sector \in WithPE
       /\ scores[i].ForwardPE < scores[j].ForwardPE
       /\ scores[i].ValuationScore > scores[j].ValuationScore
  /\ \E i \in 1..Len(scores) : scores[i].Sector \notin WithPE

(***************************************************************************)
(* Properties of GetSummaryReport (specification SpecReport)               *)
(***************************************************************************)
\* caller c has its report
Reported(c) == pc[c] = "reported"

\* the five labels with the component score each stands for
LabelledScores(r) ==
  <<[label |-> "strong momentum", score |-> r.MomentumScore],
    [label |-> "attractive valuation", score |-> r.ValuationScore],
    [label |-> "employment growth", score |-> r.GrowthScore],
    [label |-> "high R&D investment", score |-> r.InnovationScore],
    [label |-> "favorable macro positioning", score |-> r.MacroScore]>>

\* the labels of the scores of r that are numbers of at least 70, in order
LabelsFromSeventy(r) ==
  LET kept == SelectSeq(LabelledScores(r), LAMBDA e : ~IsNaN(e.score) /\ e.score >= 7000)
  IN [i \in 1..Len(kept) |-> kept[i].label]

\* C14: for a non-empty list the driver list holds exactly the labels of
\* the component scores of the first record that are >= 70 (70 included),
\* in the fixed order of the five labels, whatever the other records hold
C14_DriversOfTopRecord ==
  \A c \in Callers :
    (Reported(c) /\ Len(results[c]) > 0)
      => summary[c].TopSectorDrivers = LabelsFromSeventy(results[c][1])

\* C14 witness: a report for a list whose first record has a momentum score
\* of exactly 70 and a valuation score of 69.99, and whose second record
\* has every component score at 80
C14_Witness ==
  \E c \in Callers :
    /\ Reported(c)
    /\ Len(results[c]) >= 2
    /\ results[c][1].MomentumScore = 7000
    /\ results[c][1].ValuationScore = 6999
    /\ results[c][2].MomentumScore = 8000
    /\ summary[c].TopSectorDrivers # << >>
    /\ summary[c].TopSectorDrivers[1] = "strong momentum"
    /\ Len(summary[c].TopSectorDrivers) < 5

\* C15: GetSummaryReport returns for a list of any length N >= 0; the top
\* list is the first min(3,N) records and the bottom list the last
\* min(3,N), in list order; for N = 0 the lists are empty and the score
\* distribution is zero
C15_TopAndBottomOfAnyLength ==
  \A c \in Callers :
    /\ pc[c] = "scored" =>
         GetSummaryReport(weights[c], results[c]).Timestamp = Timestamp
    /\ Reported(c) =>
         LET list == results[c]
             n == Len(list)
             k == IF n < 3 THEN n ELSE 3
             r == summary[c]
         IN /\ Len(r.TopSectors) = k
            /\ \A i \in 1..k : r.TopSectors[i] = SectorRankOf(list[i])
            /\ Len(r.BottomSectors) = k
            /\ \A i \in 1..k : r.BottomSectors[i] = SectorRankOf(list[n - k + i])
            /\ n = 0 =>
                 /\ r.TopSectorDrivers = << >>
                 /\ r.ScoreDistribution = [Average |-> 0, Max |-> 0, Min |-> 0, Spread |-> 0]

\* C15 witness: a report for a list of two records, which are both the top
\* list and the bottom list
C15_Witness ==
  \E c \in Callers :
    /\ Reported(c)
    /\ Len(results[c]) = 2
    /\ Len(summary[c].TopSectors) = 2
    /\ summary[c].BottomSectors = summary[c].TopSectors

\* the largest and the smallest opportunity score of a list of numbers
LargestOf(list) ==
  CHOOSE x \in {list[i].OpportunityScore : i \in 1..Len(list)} :
    \A i \in 1..Len(list) : x >= list[i].OpportunityScore

SmallestOf(list) ==
  CHOOSE x \in {list[i].OpportunityScore : i \in 1..Len(list)} :
    \A i \in 1..Len(list) : x <= list[i].OpportunityScore

\* C16: for a non-empty list of opportunity scores that are numbers,
\* whatever their values, Max is the largest, Min the smallest, Average
\* their mean and Spread the largest minus the smallest, each to 2 decimals
C16_DistributionOfAnyScores ==
  \A c \in Callers :
    (/\ Reported(c)
     /\ Len(results[c]) > 0
     /\ \A i \in 1..Len(results[c]) : ~IsNaN(results[c][i].OpportunityScore))
      => LET list == results[c]
             d == summary[c].ScoreDistribution
         IN /\ d.Max = LargestOf(list)
            /\ d.Min = SmallestOf(list)
            /\ d.Average
                 = RoundAway(SumSeq([i \in 1..Len(list) |-> list[i].OpportunityScore]),
                             Len(list))
            /\ d.Spread = LargestOf(list) - SmallestOf(list)

(***************************************************************************)
(* Properties of several callers (specification SpecCallers)               *)
(***************************************************************************)
\* caller c has the list CalculateScores returned
HasScores(c) == pc[c] \in {"scored", "reported"}

C18_NoSharedWrites ==
  /\ [](~Race)
  /\ [][callerWeights' = callerWeights /\ DefaultWeights' = DefaultWeights]_vars

\* C19: two callers that passed the same weights (both nil, or both the
\* same map) and have their lists for the one snapshot have equal lists
C19_SameInputsSameList ==
  \A a, b \in Callers :
    (HasScores(a) /\ HasScores(b) /\ weights[a] = weights[b])
      => results[a] = results[b]

\* the documented default weights, in hundredths
DocumentedDefaults ==
  [k \in Signals |->
     CASE k = "momentum" -> 25
       [] k = "valuation" -> 20
       [] k = "growth" -> 20
       [] k = "innovation" -> 20
       [] k = "macro" -> 15]

\* the weights of the map w are exactly the documented defaults
IsDocumented(w) == \A k \in Signals : 100 * w.num[k] = DocumentedDefaults[k] * w.den

\* C20: config.DefaultWeights always holds the documented defaults, and a
\* scorer built without weights has exactly them as its effective weights,
\* whatever scorers were built before it
C20_DefaultsKept ==
  /\ IsDocumented(DefaultWeights)
  /\ \A c \in Callers :
       (weights[c] = "DefaultWeights" /\ pc[c] \in {"built", "scored", "reported"})
         => IsDocumented(WeightsOf(weights[c]))

\* C20 witness: a scorer was built without weights after another caller's
\* five weights of 2 were rescaled in place
C20_Witness ==
  \E a, b \in Callers :
    /\ weights[a] = "DefaultWeights"
    /\ pc[a] = "built"
    /\ weights[b] = "callerWeights"
    /\ HasScores(b)
    /\ \A k \in Signals : 5 * callerWeights.num[k] = callerWeights.den

(***************************************************************************)
(* Properties of the normalizers (specification SpecNorm)                  *)
(***************************************************************************)
\* the map the normalizer that ran returns for the same input under the
\* given polarity
SameCall(hib) ==
  IF normCall = "minmax" THEN NormalizeScore(values, hib)
  ELSE NormalizeScoreZScore(values, hib)

\* C7: both normalizers return one score per input key and no other key,
\* each score in [0, 100], for every map of finite values of any size and
\* both polarities
C7_OneScorePerKeyInRange ==
  normCall # "none" =>
    /\ DOMAIN normResult = DOMAIN values
    /\ \A k \in DOMAIN normResult : InRange(normResult[k])

\* C8: for a non-empty map whose values are all equal (a map of one entry
\* included) both normalizers give every key exactly 50.0
C8_EqualValuesGiveFifty ==
  (normCall # "none" /\ DOMAIN values # {}
     /\ \A j, k \in DOMAIN values : values[j] = values[k])
    => \A k \in DOMAIN values : FEq(normResult[k], Fifty)

\* 100 - x on float64
Complement(x) == IF IsNaN(x) THEN NaN ELSE Hundred - x

\* C9 (as claimed): the score of a key with higherIsBetter=false equals 100
\* minus its score with higherIsBetter=true, both taken after the rounding
\* (a NaN is taken to equal 100 - NaN here, so that what refutes the claim is
\* a rounding and not the NaN of C8)
C9_InvertedIsComplement ==
  normCall # "none" =>
    \A k \in DOMAIN values :
      SameCall(FALSE)[k] = Complement(SameCall(TRUE)[k])

\* C9 (amended): the score of a key with higherIsBetter=false is within 0.01
\* of 100 minus its score with higherIsBetter=true (the two differ when the
\* unrounded score lies halfway between two hundredths, which math.Round
\* moves away from zero under both polarities); where one of the two is NaN
\* (NormalizeScoreZScore on a map of one entry) both are
C9_InvertedWithinOneHundredth ==
  normCall # "none" =>
    /\ DOMAIN normResult = DOMAIN SameCall(~higherIsBetter)
    /\ \A k \in DOMAIN normResult :
         LET other == SameCall(~higherIsBetter)[k]
         IN IF IsNaN(normResult[k]) \/ IsNaN(other)
            THEN IsNaN(normResult[k]) /\ IsNaN(other)
            ELSE Abs(normResult[k] - (Hundred - other)) <= 1

\* C9 witness: a min-max score returned for lower-is-better differs from
\* 100 minus the score for higher-is-better
C9_Witness ==
  /\ normCall = "minmax"
  /\ ~higherIsBetter
  /\ \E k \in DOMAIN normResult :
       normResult[k] # Hundred - NormalizeScore(values, TRUE)[k]

(***************************************************************************)
(* Claims about the signal calculators (under Spec)                        *)
(***************************************************************************)
\* the sub-score of an entity: its normalized value, or 50 when the entity
\* has no value for the sub-metric
SubScore(norm, sector) == IF sector \in DOMAIN norm THEN norm[sector] ELSE Fifty

\* the 12-month returns among the returns of CalculatePriceReturns
YearReturns(prices) ==
  LET returns == CalculatePriceReturns(prices)
  IN [e \in {x \in DOMAIN returns : "12mo" \in DOMAIN returns[x]} |-> returns[e]["12mo"]]

\* the three normalized sub-metric maps of the momentum signal
SubMetrics(prices) ==
  [r |-> NormalizeScoreZScore(YearReturns(prices), TRUE),
   s |-> NormalizeScoreZScore(CalculateRelativeStrength(prices, 12), TRUE),
   v |-> NormalizeScoreZScore(CalculateVolumeTrend(prices, 20, 50), TRUE)]

\* C21: CalculateMomentumScore returns a score for exactly the configured
\* sectors, and the momentum score of each record is
\* 0.50*r + 0.35*s + 0.15*v rounded to the nearest hundredth, where r, s and
\* v are the sector's z-score-normalized 12-month return, 12-month relative
\* strength and 20/50-day volume trend, each normalized over the entities
\* that have the sub-metric and each 50 for a sector that lacks it (the
\* blend of a NaN sub-score is NaN)
C21_MomentumIsBlend ==
  Scored =>
    LET sub == SubMetrics(allData.SectorPrices)
    IN /\ DOMAIN CalculateMomentumScore(allData.SectorPrices) = Sectors
       /\ \A i \in 1..Len(scores) :
            LET e == scores[i].Sector
                m == scores[i].MomentumScore
                r == SubScore(sub.r, e)
                sv == SubScore(sub.s, e)
                v == SubScore(sub.v, e)
            IN IF IsNaN(r) \/ IsNaN(sv) \/ IsNaN(v) THEN IsNaN(m)
               ELSE /\ ~IsNaN(m)
                    /\ 2 * Abs(100 * m - (50 * r + 35 * sv + 15 * v)) <= 100

\* C21 witness: scores were returned for prices where one sector has the
\* three sub-metrics and another has the volume trend only, and the
\* momentum score of both is a number other than 50
C21_Witness ==
  /\ Scored
  /\ LET sub == SubMetrics(allData.SectorPrices)
     IN \E i, j \in 1..Len(scores) :
          /\ scores[i].Sector \in DOMAIN sub.r \cap DOMAIN sub.s \cap DOMAIN sub.v
          /\ scores[j].Sector \in DOMAIN sub.v \ (DOMAIN sub.r \cup DOMAIN sub.s)
          /\ \A k \in {i, j} :
               ~IsNaN(scores[k].MomentumScore) /\ scores[k].MomentumScore # Fifty

\* the employment observations of a sector, << >> for a sector without a
\* series
ObservationsOf(sector) ==
  IF sector \in DOMAIN allData.EmploymentData
  THEN allData.EmploymentData[sector].Values ELSE << >>

\* C22 (as stated): a record has an employment growth only if the series of
\* its sector has at least 13 observations, the growth is
\* (latest - base) / base in percent where base is the observation 13
\* periods before the latest one, and a sector with fewer than 13
\* observations has no growth and the growth score 50
C22_BaseThirteenPeriodsBack ==
  Scored =>
    \A i \in 1..Len(scores) :
      LET vals == ObservationsOf(scores[i].Sector)
          g == scores[i].EmploymentGrowth
      IN /\ g # Nil =>
              /\ Len(vals) >= 13
              /\ Len(vals) - 13 >= 1
              /\ g = ((vals[Len(vals)] - vals[Len(vals) - 13]) * 100) \div vals[Len(vals) - 13]
         /\ Len(vals) < 13 => g = Nil /\ scores[i].GrowthScore = Fifty

\* C22 (amended): a record has an employment growth exactly if the series
\* of its sector has at least 13 observations and its base is positive,
\* where base is the 13th observation counted back from the latest one
\* inclusive, which is 12 periods before the latest; the growth is
\* (latest - base) / base in percent; and a sector with fewer than 13
\* observations has no growth and the growth score 50
C22_BaseTwelvePeriodsBack ==
  Scored =>
    \A i \in 1..Len(scores) :
      LET vals == ObservationsOf(scores[i].Sector)
          g == scores[i].EmploymentGrowth
          has == Len(vals) >= 13 /\ vals[Len(vals) - 12] > 0
      IN /\ g # Nil <=> has
         /\ has => g = ((vals[Len(vals)] - vals[Len(vals) - 12]) * 100) \div vals[Len(vals) - 12]
         /\ Len(vals) < 13 => g = Nil /\ scores[i].GrowthScore = Fifty

\* C22 witness: scores were returned where one sector has 14 observations
\* and a growth, one has exactly 13 and a growth, and one has 12 and none
C22_Witness ==
  /\ Scored
  /\ \E i, j, k \in 1..Len(scores) :
       /\ Len(ObservationsOf(scores[i].Sector)) = 14 /\ scores[i].EmploymentGrowth = 10
       /\ Len(ObservationsOf(scores[j].Sector)) = 13 /\ scores[j].EmploymentGrowth # Nil
       /\ Len(ObservationsOf(scores[k].Sector)) = 12 /\ scores[k].EmploymentGrowth = Nil

\* the bars of a sector, << >> for a sector without a price series
BarsOf(sector) ==
  IF sector \in DOMAIN allData.SectorPrices THEN allData.SectorPrices[sector] ELSE << >>

\* the display field of a record for a period
ReturnField(r, months) ==
  CASE months = 3 -> r.PriceReturn3Mo
    [] months = 6 -> r.PriceReturn6Mo
    [] months = 12 -> r.PriceReturn12Mo

\* C23: for each period P of 3, 6 and 12 months, CalculatePriceReturns has a
\* P-month return for an entity exactly if its series has at least P*21
\* bars; the return is the change, in percent, from the close P*21 bars from
\* the tail to the last close; and the display field of a record for a
\* period its sector has no return for is nil
C23_ReturnsByWindow ==
  Scored =>
    /\ \A e \in DOMAIN allData.SectorPrices \ {Benchmark} :
         \A months \in {3, 6, 12} :
           LET returns == CalculatePriceReturns(allData.SectorPrices)
           IN (e \in DOMAIN returns /\ periodKey(months) \in DOMAIN returns[e])
                <=> Len(allData.SectorPrices[e]) >= months * 21
    /\ \A i \in 1..Len(scores) :
         \A months \in {3, 6, 12} :
           LET series == BarsOf(scores[i].Sector)
               bars == months * 21
           IN ReturnField(scores[i], months) =
                IF Len(series) >= bars
                THEN PctChange(series[Len(series) - bars + 1].Close,
                               series[Len(series)].Close)
                ELSE Nil

\* C23 witness: scores were returned where one record has a 3-month return
\* and no 12-month return, one has the three returns, those over 6 and 12
\* months other than 0, and one has a series and no return at all
C23_Witness ==
  /\ Scored
  /\ \E i, j, k \in 1..Len(scores) :
       /\ scores[i].PriceReturn3Mo # Nil
       /\ scores[i].PriceReturn12Mo = Nil
       /\ \A months \in {3, 6, 12} : ReturnField(scores[j], months) # Nil
       /\ \A months \in {6, 12} : ReturnField(scores[j], months) # 0
       /\ BarsOf(scores[k].Sector) # << >>
       /\ \A months \in {3, 6, 12} : ReturnField(scores[k], months) = Nil

\* the key has a series of at least bars bars
HasWindow(prices, key, bars) == key \in DOMAIN prices /\ Len(prices[key]) >= bars

\* the return of a series over its last bars bars, in percent
WindowReturn(series, bars) ==
  PctChange(series[Len(series) - bars + 1].Close, series[Len(series)].Close)

\* the keys of the maps the four price calculators return for the snapshot
PriceCalculatorKeys ==
  LET prices == allData.SectorPrices
  IN DOMAIN CalculatePriceReturns(prices)
       \cup UNION {DOMAIN CalculateRelativeStrength(prices, months) : months \in {3, 6, 12}}
       \cup DOMAIN CalculateVolumeTrend(prices, 20, 50)
       \cup (IF "treasury_10y" \in DOMAIN allData.MacroData
             THEN DOMAIN CalculateRateSensitivity(prices, allData.MacroData["treasury_10y"])
             ELSE {})

\* C24: CalculateRelativeStrength has a value for an entity exactly when
\* the series of the entity and the series of the benchmark both have at
\* least periodMonths*21 bars, the value being the return of the entity
\* minus the return of the benchmark over that window; it is empty when
\* the benchmark is absent or too short; and the key of the benchmark is
\* in no map returned by CalculatePriceReturns, CalculateRelativeStrength,
\* CalculateVolumeTrend or CalculateRateSensitivity
C24_RelativeToBenchmark ==
  Scored =>
    LET prices == allData.SectorPrices
    IN /\ \A months \in {3, 6, 12} :
            LET bars == months * 21
                rs == CalculateRelativeStrength(prices, months)
            IN /\ DOMAIN rs =
                    IF HasWindow(prices, Benchmark, bars)
                    THEN {e \in DOMAIN prices \ {Benchmark} : HasWindow(prices, e, bars)}
                    ELSE {}
               /\ \A e \in DOMAIN rs :
                    rs[e] = FSub(WindowReturn(prices[e], bars),
                                 WindowReturn(prices[Benchmark], bars))
       /\ Benchmark \notin PriceCalculatorKeys
       /\ \A i \in 1..Len(scores) :
            scores[i].RelativeStrength =
              getOrDefault(CalculateRelativeStrength(prices, 12), scores[i].Sector, Nil)

\* C24 witness: scores were returned where the benchmark has a year of
\* bars, one record has a relative strength that is a number other than 0,
\* and the sector of another has a series too short for one
C24_Witness ==
  /\ Scored
  /\ HasWindow(allData.SectorPrices, Benchmark, 252)
  /\ \E i, j \in 1..Len(scores) :
       /\ scores[i].RelativeStrength # Nil
       /\ IsFinite(scores[i].RelativeStrength)
       /\ scores[i].RelativeStrength # 0
       /\ BarsOf(scores[j].Sector) # << >>
       /\ scores[j].RelativeStrength = Nil

\* the rate series of the snapshot, empty when the snapshot has none
RatesOf(snapshot) ==
  IF "treasury_10y" \in DOMAIN snapshot.MacroData
  THEN snapshot.MacroData["treasury_10y"] ELSE [Values |-> << >>]

\* out is the last n elements of s
IsRecent(out, s, n) ==
  /\ Len(out) = n
  /\ n <= Len(s)
  /\ \A k \in 1..n : out[k] = s[Len(s) - n + k]

\* C25: CalculateRateSensitivity correlates the monthly returns of an
\* entity with the rate changes exactly when the series of the entity gives
\* at least 12 monthly returns (strides of 21 bars) and the rate series
\* gives at least 12 month-over-month changes; the two sequences it
\* correlates have the same length n, the smaller of the two counts, at
\* least 12, and are the most recent n elements of each
C25_CorrelatesRecentMonths ==
  Scored =>
    LET prices == allData.SectorPrices
        rates == RatesOf(allData)
        changes == monthlyChanges(rates)
    IN \A e \in DOMAIN prices \ {Benchmark} :
         LET returns == monthlyReturnsFromPrices(prices[e])
             n == IF Len(returns) < Len(changes) THEN Len(returns) ELSE Len(changes)
             pair == alignedOf(prices[e], changes)
         IN /\ e \in CorrelatedKeys(prices, rates)
                 <=> (Len(returns) >= 12 /\ Len(changes) >= 12)
            /\ e \in CorrelatedKeys(prices, rates) =>
                 /\ n >= 12
                 /\ IsRecent(pair.returns, returns, n)
                 /\ IsRecent(pair.rates, changes, n)
            /\ e \in DOMAIN CalculateRateSensitivity(prices, rates)
                 => e \in CorrelatedKeys(prices, rates)

\* C25 witness: scores were returned where the rate series gives 14 changes
\* and a sector gives 12 monthly returns and has a correlation
C25_Witness ==
  /\ Scored
  /\ Len(monthlyChanges(RatesOf(allData))) = 14
  /\ \E e \in DOMAIN CalculateRateSensitivity(allData.SectorPrices, RatesOf(allData)) :
       Len(monthlyReturnsFromPrices(allData.SectorPrices[e])) = 12

\* the raw metric maps the calculators hand to NormalizeScoreZScore for the
\* snapshot
RawMetricMaps ==
  {YearReturns(allData.SectorPrices),
   CalculateRelativeStrength(allData.SectorPrices, 12),
   CalculateVolumeTrend(allData.SectorPrices, 20, 50),
   peMapOf(EmptyMap, allData.SectorInfo),
   CalculateEmploymentGrowth(allData.EmploymentData),
   validRDOf(allData.RDData),
   CalculateRateSensitivity(allData.SectorPrices, RatesOf(allData))}

\* C26: every raw metric map a calculator passes to the normalizer holds
\* finite values only (no NaN, no infinity), for every snapshot
C26_RawMetricsFinite ==
  Scored => \A raw \in RawMetricMaps : \A k \in DOMAIN raw : IsFinite(raw[k])

(***************************************************************************)
(* Claims about the z-score normalizer (under SpecNorm)                    *)
(***************************************************************************)
\* the score of the claim for one value: 50 + 15*z clamped to [0, 100],
\* inverted when lower is better, then rounded to the hundredth, with z the
\* distance from the population mean in population standard deviations
\* (divisor N): z*z = dev*dev / Q for dev = n*val - S
PopulationScore(val, n, S, Q, hib) ==
  LET dev == n * val - S
      sq == TwoDistSq(dev * dev, Q)
      m == ISqrt(sq.floor)
      clamped == sq.floor > Hundred * Hundred
                   \/ (sq.floor = Hundred * Hundred /\ ~sq.exact)
      tie == sq.exact /\ m * m = sq.floor /\ m % 2 = 1
      up == (dev >= 0) = hib
      dist == IF clamped THEN Fifty
              ELSE IF tie /\ ~up THEN (m - 1) \div 2
              ELSE (m + 1) \div 2
  IN IF dev = 0 THEN Fifty
     ELSE IF up THEN Fifty + dist
     ELSE Fifty - dist

\* the values of the map are not all equal
HasSpread == \E j, k \in DOMAIN values : values[j] # values[k]

\* C27: for a map whose values are not all equal, NormalizeScoreZScore gives
\* each key the score round2(clamp(50 + 15*(value - mean)/std, 0, 100)),
\* inverted before the rounding when lower is better, where mean and std
\* are the population mean and the population standard deviation (divisor
\* N) of the values
C27_PopulationDeviation ==
  (normCall = "zscore" /\ HasSpread) =>
    LET n == Cardinality(DOMAIN values)
        S == SumOver(values, DOMAIN values)
        Q == SpreadQ(values)
    IN /\ DOMAIN normResult = DOMAIN values
       /\ \A k \in DOMAIN values :
            normResult[k] = PopulationScore(values[k], n, S, Q, higherIsBetter)

(***************************************************************************)
(* Claims about the AppState (under SpecApp and SpecGetData)               *)
(***************************************************************************)
\* request q holds s.mu, as a reader or as the writer
Holds(q) == q \in mu.readers \/ mu.writer = q

\* the next step of request q reads s.cachedData
ReadsCache(q) == req[q].pc \in {"rlocked", "returning", "locked"}

\* the next step of request q writes s.cachedData
WritesCache(q) == req[q].pc = "fetched"

\* C28: every read and every write of s.cachedData is made by a request
\* that holds s.mu, under any interleaving of GetData and RefreshData
\* calls, so that no write of RefreshData is concurrent with a read of
\* GetData made without the lock
C28_AccessUnderMutex ==
  /\ \A q \in Requests : (ReadsCache(q) \/ WritesCache(q)) => Holds(q)
  /\ ~\E a, b \in Requests :
        /\ req[a].op = "RefreshData" /\ WritesCache(a)
        /\ req[b].op = "GetData" /\ ReadsCache(b) /\ ~Holds(b)

\* every request has returned
AllReturned == \A q \in Requests : req[q].pc = "done"

\* C29: with concurrent GetData calls on an AppState whose snapshot is unset
\* and no RefreshData call, data.FetchAllData is invoked at most once at any
\* time and exactly once in the end, the calls that have returned have all
\* returned the snapshot of that one fetch, and in the end every call has
\* returned and the mutex is free
C29_FetchedOnce ==
  /\ [](fetches <= 1)
  /\ [](\A q \in Requests :
          req[q].pc = "done" => (fetches = 1 /\ req[q].ret = cachedData /\ req[q].ret # NilData))
  /\ <>[](AllReturned /\ mu = MutexFree /\ fetches = 1)

\* C29 witness: a call that found no snapshot under the read lock holds the
\* write lock after another call has fetched and stored one and returned
C29_Witness ==
  /\ fetches = 1
  /\ cachedData # NilData
  /\ \E a, b \in Requests :
       /\ At(a, "GetData", "locked")
       /\ At(b, "GetData", "done")

(***************************************************************************)
(* Claims about parseWeights (under SpecParse)                             *)
(***************************************************************************)
\* the query values that hold a number of [0, 1], with the number in
\* hundredths
UnitValues == [val \in {"0", "0.5", "1"} |-> IF val = "0" THEN 0 ELSE IF val = "1" THEN 100 ELSE 50]

\* the weight of a parameter before the rescaling, in hundredths: its number
\* if it holds one of [0, 1], its documented default otherwise
WeightBefore(param) ==
  IF query[param] \in DOMAIN UnitValues THEN UnitValues[query[param]]
  ELSE DocumentedDefaults[param]

\* the map returned has the five keys, no negative value, and its values
\* are in the proportions of the weights before the rescaling
FiveInProportion ==
  /\ ~parsed.isNil
  /\ DOMAIN parsed.num = Signals
  /\ parsed.den > 0
  /\ \A k \in Signals : parsed.num[k] >= 0
  /\ \A a, b \in Signals :
       parsed.num[a] * WeightBefore(b) = parsed.num[b] * WeightBefore(a)

\* C30 (as stated): parseWeights returns nil when no parameter holds a
\* number of [0, 1]; otherwise it returns a map with the five keys, no value
\* negative, a missing or invalid parameter taking its default weight before
\* the rescaling, and the five values summing to 1.0
C30_FiveWeightsSummingToOne ==
  parseDone =>
    IF \A param \in Signals : query[param] \notin DOMAIN UnitValues
    THEN parsed = NilWeights
    ELSE FiveInProportion /\ NumSum(parsed) = parsed.den

\* C30 (amended): as stated, except that the five values sum to 1.0 only
\* when one of the weights before the rescaling is positive; when all five
\* parameters hold 0 the map returned holds five zeros
C30_SummingToOneIfPositive ==
  parseDone =>
    IF \A param \in Signals : query[param] \notin DOMAIN UnitValues
    THEN parsed = NilWeights
    ELSE /\ FiveInProportion
         /\ IF \E param \in Signals : WeightBefore(param) > 0
            THEN NumSum(parsed) = parsed.den
            ELSE \A param \in Signals : query[param] = "0" /\ parsed.num[param] = 0

\* C30 witness: parseWeights returned a map for a query with a number of
\* [0, 1], a number above 1, a missing parameter and one that is no number
C30_Witness ==
  /\ parseDone
  /\ ~parsed.isNil
  /\ \E a, b, c, d \in Signals :
       query[a] = "0.5" /\ query[b] = "1.5" /\ query[c] = "" /\ query[d] = "abc"

====
